---------------------------- MODULE Spec2Model ----------------------------
(***************************************************************************)
(* The name generators of dnd-tools: generateNames (name-generators.ts),   *)
(* the pattern generators AlienNames and AmazonNames, the corpus blender   *)
(* AnansiNames, the gender bank AngelNames and the content filter          *)
(* SensitivityCheck.                                                       *)
(*                                                                         *)
(* A JavaScript string is a sequence of one-character strings (1-based),   *)
(* a JavaScript array is a function on 0..n-1, as built by Arr.  The       *)
(* tables below are the tables of the source, entry for entry.             *)
(* Math.floor(Math.random() * n) is a choice in 0..n-1; for the large      *)
(* tables the choice is restricted to the entries named in the *Draws      *)
(* definitions, which are indices into the unchanged tables.               *)
(*                                                                         *)
(* Spec runs generateNames call after call, the functions called directly  *)
(* on small arguments, and the pattern generator on two small tables.      *)
(* GenerateSpec is one generate() call of a pattern generator with fair    *)
(* steps; FairSpec is Spec with a fair conflict loop; ConcSpec is two      *)
(* callers of generateNames whose calls are suspended at the await; UiSpec  *)
(* is the component NameGenerator calling GetNames while earlier calls are *)
(* suspended.                                                              *)
(***************************************************************************)
EXTENDS Integers, Sequences, FiniteSets, TLC

(* a JavaScript array literal: the elements of s at the indices 0..n-1 *)
Arr(s) == [k \in 0..(Len(s) - 1) |-> s[k + 1]]

(* Array.prototype.length of a dense array *)
Length(a) == Cardinality(DOMAIN a)

(* a[k] = x on an array: the element is added or replaced *)
ArrSet(a, k, x) == [j \in (DOMAIN a) \cup {k} |-> IF j = k THEN x ELSE a[j]]

(* Array.prototype.indexOf: the first index holding x, or -1 *)
IndexOf(a, x) ==
  IF \E k \in DOMAIN a : a[k] = x
    THEN CHOOSE k \in DOMAIN a : a[k] = x /\ \A j \in DOMAIN a : a[j] = x => k <= j
    ELSE -1

(* Array.prototype.includes *)
Includes(a, x) == \E k \in DOMAIN a : a[k] = x

(* String.prototype.slice(from, to) for 0 <= from: the characters at the
   0-based positions from..to-1 that exist *)
Slice(s, from, to) ==
  LET hi == IF to > Len(s) THEN Len(s) ELSE to
  IN  IF from >= hi THEN <<>> ELSE SubSeq(s, from + 1, hi)

(* String.prototype.slice(from) *)
SliceFrom(s, from) == Slice(s, from, Len(s))

(* String.prototype.slice(-1): the last character, or the empty string *)
SliceLast(s) == IF Len(s) = 0 THEN <<>> ELSE <<s[Len(s)]>>

(* Array.prototype.join('') over the strings of the array a *)
RECURSIVE JoinFrom(_, _)
JoinFrom(a, k) == IF k >= Length(a) THEN <<>> ELSE a[k] \o JoinFrom(a, k + 1)

Join(a) == JoinFrom(a, 0)

(* the characters String.prototype.toLowerCase changes, among those that
   occur in the tables and in the inputs *)
LowerCaseOf ==
  [c \in {"A","B","C","D","E","F","G","H","I","J","K","L","M","N","O","P","Q","R","S","T",
          "U","V","W","X","Y","Z","U+00C3","U+00C4","U+00C5","U+00C7","U+00C9","U+00CC",
          "U+00CE","U+017D"} |->
     CASE c = "A" -> "a" [] c = "B" -> "b" [] c = "C" -> "c" [] c = "D" -> "d"
       [] c = "E" -> "e" [] c = "F" -> "f" [] c = "G" -> "g" [] c = "H" -> "h"
       [] c = "I" -> "i" [] c = "J" -> "j" [] c = "K" -> "k" [] c = "L" -> "l"
       [] c = "M" -> "m" [] c = "N" -> "n" [] c = "O" -> "o" [] c = "P" -> "p"
       [] c = "Q" -> "q" [] c = "R" -> "r" [] c = "S" -> "s" [] c = "T" -> "t"
       [] c = "U" -> "u" [] c = "V" -> "v" [] c = "W" -> "w" [] c = "X" -> "x"
       [] c = "Y" -> "y" [] c = "Z" -> "z"
       [] c = "U+00C3" -> "U+00E3" [] c = "U+00C4" -> "U+00E4"
       [] c = "U+00C5" -> "U+00E5" [] c = "U+00C7" -> "U+00E7"
       [] c = "U+00C9" -> "U+00E9" [] c = "U+00CC" -> "U+00EC"
       [] c = "U+00CE" -> "U+00EE" [] c = "U+017D" -> "U+017E"]

(* the string left as it is, toLowerCase not called *)
ToLowerCaseOmitted(word) == word

(* String.prototype.toLowerCase *)
ToLowerCase(word) ==
  [k \in 1..Len(word) |-> IF word[k] \in DOMAIN LowerCaseOf THEN LowerCaseOf[word[k]] ELSE word[k]]

(* alien.ts: characters, 15 slices; slices 0-4, 5-9 and 10-14 serve patterns 1, 2 and 3 *)
AlienCharacters ==
  Arr(<<
    (* slice 0 *)
    Arr(<<
      <<"b","r">>, <<"c">>, <<"c","r">>, <<"d","r">>, <<"g">>, <<"g","h">>, <<"g","r">>,
      <<"k">>, <<"k","h">>, <<"k","r">>, <<"n">>, <<"q">>, <<"q","h">>, <<"s","c">>,
      <<"s","c","r">>, <<"s","t","r">>, <<"s","t">>, <<"t">>, <<"t","r">>, <<"t","h","r">>,
      <<"v">>, <<"v","r">>, <<"x">>, <<"z">>, <<>>, <<>>, <<>>, <<>>, <<>>
    >>),
    (* slice 1 *)
    Arr(<<
      <<"a","e">>, <<"a","a">>, <<"a","i">>, <<"a","u">>, <<"u","u">>, <<"a">>, <<"e">>,
      <<"i">>, <<"o">>, <<"u">>, <<"a">>, <<"e">>, <<"i">>, <<"o">>, <<"u">>, <<"a">>, <<"e">>,
      <<"i">>, <<"o">>, <<"u">>, <<"a">>, <<"e">>, <<"i">>, <<"o">>, <<"u">>, <<"a">>, <<"e">>,
      <<"i">>, <<"o">>, <<"u">>, <<"a">>, <<"e">>, <<"i">>, <<"o">>, <<"u">>
    >>),
    (* slice 2 *)
    Arr(<<
      <<"c">>, <<"k">>, <<"n">>, <<"q">>, <<"t">>, <<"v">>, <<"x">>, <<"z">>, <<"c">>,
      <<"c","c">>, <<"c","r">>, <<"c","z">>, <<"d","r">>, <<"g","r">>, <<"g","n">>, <<"g","m">>,
      <<"g","v">>, <<"g","z">>, <<"k">>, <<"k","k">>, <<"k","n">>, <<"k","r">>, <<"k","t">>,
      <<"k","v">>, <<"k","z">>, <<"l","g">>, <<"l","k">>, <<"l","q">>, <<"l","x">>, <<"l","z">>,
      <<"n","c">>, <<"n","d","r">>, <<"n","k","r">>, <<"n","g","r">>, <<"n","k">>, <<"n","q">>,
      <<"n","q","r">>, <<"n","z">>, <<"q">>, <<"q","r">>, <<"q","n">>, <<"r","c">>, <<"r","g">>,
      <<"r","k">>, <<"r","k","r">>, <<"r","q">>, <<"r","q","r">>, <<"s","c">>, <<"s","q">>,
      <<"s","t","r">>, <<"t">>, <<"v">>, <<"v","r">>, <<"x">>, <<"z">>, <<"q","'">>,
      <<"k","'">>, <<"r","r">>, <<"r","'">>, <<"t","'">>, <<"t","t">>, <<"v","v">>, <<"v","'">>,
      <<"x","'">>, <<"z","'">>, <<>>, <<>>, <<>>, <<>>, <<>>, <<>>, <<>>, <<>>, <<>>, <<>>,
      <<>>, <<>>, <<>>, <<>>, <<>>, <<>>, <<>>
    >>),
    (* slice 3 *)
    Arr(<<
      <<>>, <<"a">>, <<"e">>, <<"i">>, <<"o">>, <<"u">>, <<"a">>, <<"e">>, <<"i">>, <<"o">>,
      <<"u">>, <<"a">>, <<"e">>, <<"i">>, <<"o">>, <<"u">>, <<"o","i">>, <<"i","e">>,
      <<"a","i">>, <<"e","i">>, <<"e","o">>, <<"u","i">>
    >>),
    (* slice 4 *)
    Arr(<<
      <<"d">>, <<"d","s">>, <<"k">>, <<"k","s">>, <<"l">>, <<"l","s">>, <<"n">>, <<"n","s">>,
      <<"t","s">>, <<"x">>
    >>),
    (* slice 5 *)
    Arr(<<
      <<"b">>, <<"b","h">>, <<"c","h">>, <<"d">>, <<"d","h">>, <<"f">>, <<"h">>, <<"l">>,
      <<"m">>, <<"n">>, <<"p","h">>, <<"r">>, <<"s">>, <<"s","h">>, <<"t","h">>, <<"v">>,
      <<"y">>, <<"z">>, <<>>, <<>>, <<>>, <<>>, <<>>, <<>>, <<>>, <<>>, <<>>
    >>),
    (* slice 6 *)
    Arr(<<
      <<"a","e">>, <<"a","i">>, <<"e","e">>, <<"e","i">>, <<"i","e">>, <<"a">>, <<"e">>,
      <<"i">>, <<"o">>, <<"u">>, <<"a">>, <<"e">>, <<"i">>, <<"o">>, <<"u">>, <<"a">>, <<"e">>,
      <<"i">>, <<"o">>, <<"u">>, <<"a">>, <<"e">>, <<"i">>, <<"o">>, <<"u">>, <<"a">>, <<"e">>,
      <<"i">>, <<"o">>, <<"u">>, <<"a">>, <<"e">>, <<"i">>, <<"o">>, <<"u">>
    >>),
    (* slice 7 *)
    Arr(<<
      <<"c">>, <<"d">>, <<"g">>, <<"h">>, <<"l">>, <<"m">>, <<"n">>, <<"r">>, <<"s">>, <<"v">>,
      <<"z">>, <<"c">>, <<"c","h">>, <<"d">>, <<"d","d">>, <<"d","h">>, <<"g">>, <<"g","n">>,
      <<"h">>, <<"h","l">>, <<"h","m">>, <<"h","n">>, <<"h","r">>, <<"l">>, <<"l","d">>,
      <<"l","d","r">>, <<"l","g">>, <<"l","g","r">>, <<"l","k">>, <<"l","l">>, <<"l","m">>,
      <<"l","n">>, <<"l","p","h">>, <<"l","t">>, <<"l","v">>, <<"l","z">>, <<"m">>, <<"m","m">>,
      <<"m","n">>, <<"m","h">>, <<"m","p","h">>, <<"n">>, <<"n","d">>, <<"n","n">>, <<"n","g">>,
      <<"n","k">>, <<"n","p","h">>, <<"n","z">>, <<"p","h">>, <<"p","h","r">>, <<"r">>,
      <<"r","n">>, <<"r","l">>, <<"r","z">>, <<"s">>, <<"s","s">>, <<"s","l">>, <<"s","n">>,
      <<"s","t">>, <<"v">>, <<"z">>, <<"s","'">>, <<"l","'">>, <<"n","'">>, <<"m","'">>,
      <<"f","'">>, <<"h","'">>
    >>),
    (* slice 8 *)
    Arr(<<
      <<"a">>, <<"e">>, <<"i">>, <<"o">>, <<"u">>, <<"a">>, <<"e">>, <<"i">>, <<"o">>, <<"u">>,
      <<"o","i">>, <<"i","e">>, <<"a","i">>, <<"e","a">>, <<"a","e">>
    >>),
    (* slice 9 *)
    Arr(<<
      <<>>, <<>>, <<>>, <<>>, <<"d">>, <<"d","s">>, <<"h">>, <<"l">>, <<"l","l">>, <<"n">>,
      <<"n","s">>, <<"r">>, <<"r","s">>, <<"s">>, <<"t">>, <<"t","h">>
    >>),
    (* slice 10 *)
    Arr(<<
      <<"b">>, <<"b","h">>, <<"b","r">>, <<"c">>, <<"c","h">>, <<"c","r">>, <<"d">>,
      <<"d","h">>, <<"d","r">>, <<"f">>, <<"g">>, <<"g","h">>, <<"g","r">>, <<"h">>, <<"k">>,
      <<"k","h">>, <<"k","r">>, <<"l">>, <<"m">>, <<"n">>, <<"q">>, <<"q","h">>, <<"p","h">>,
      <<"r">>, <<"s">>, <<"s","c">>, <<"s","c","r">>, <<"s","h">>, <<"s","t">>, <<"s","t","r">>,
      <<"t">>, <<"t","h">>, <<"t","h","r">>, <<"t","r">>, <<"v">>, <<"v","r">>, <<"y">>,
      <<"x">>, <<"z">>, <<>>, <<>>, <<>>, <<>>, <<>>, <<>>, <<>>
    >>),
    (* slice 11 *)
    Arr(<<
      <<"a","e">>, <<"a","a">>, <<"a","i">>, <<"a","u">>, <<"e","e">>, <<"e","i">>, <<"i","e">>,
      <<"u","u">>, <<"a">>, <<"e">>, <<"i">>, <<"o">>, <<"u">>, <<"a">>, <<"e">>, <<"i">>,
      <<"o">>, <<"u">>, <<"a">>, <<"e">>, <<"i">>, <<"o">>, <<"u">>, <<"a">>, <<"e">>, <<"i">>,
      <<"o">>, <<"u">>, <<"a">>, <<"e">>, <<"i">>, <<"o">>, <<"u">>, <<"a">>, <<"e">>, <<"i">>,
      <<"o">>, <<"u">>
    >>),
    (* slice 12 *)
    Arr(<<
      <<"c">>, <<"d">>, <<"g">>, <<"h">>, <<"k">>, <<"l">>, <<"m">>, <<"n">>, <<"q">>, <<"r">>,
      <<"s">>, <<"t">>, <<"v">>, <<"z">>, <<"c">>, <<"d">>, <<"g">>, <<"h">>, <<"k">>, <<"l">>,
      <<"m">>, <<"n">>, <<"q">>, <<"r">>, <<"s">>, <<"t">>, <<"v">>, <<"z">>, <<"c">>,
      <<"c","c">>, <<"c","h">>, <<"c","r">>, <<"c","z">>, <<"d">>, <<"d","d">>, <<"d","h">>,
      <<"d","r">>, <<"g">>, <<"g","m">>, <<"g","n">>, <<"g","r">>, <<"g","v">>, <<"g","z">>,
      <<"h">>, <<"h","l">>, <<"h","m">>, <<"h","n">>, <<"h","r">>, <<"k">>, <<"k","'">>,
      <<"k","k">>, <<"k","n">>, <<"k","r">>, <<"k","t">>, <<"k","v">>, <<"k","z">>, <<"l">>,
      <<"l","d">>, <<"l","d","r">>, <<"l","g">>, <<"l","g","r">>, <<"l","k">>, <<"l","l">>,
      <<"l","m">>, <<"l","n">>, <<"l","p","h">>, <<"l","q">>, <<"l","t">>, <<"l","v">>,
      <<"l","x">>, <<"l","z">>, <<"m">>, <<"m","h">>, <<"m","m">>, <<"m","n">>, <<"m","p","h">>,
      <<"n">>, <<"n","c">>, <<"n","d">>, <<"n","d","r">>, <<"n","g">>, <<"n","g","r">>,
      <<"n","k">>, <<"n","k","r">>, <<"n","n">>, <<"n","p","h">>, <<"n","q">>, <<"n","q","r">>,
      <<"n","z">>, <<"p","h">>, <<"p","h","r">>, <<"q">>, <<"q","'">>, <<"q","n">>, <<"q","r">>,
      <<"r">>, <<"r","'">>, <<"r","c">>, <<"r","g">>, <<"r","k">>, <<"r","k","r">>, <<"r","l">>,
      <<"r","n">>, <<"r","q">>, <<"r","q","r">>, <<"r","r">>, <<"r","z">>, <<"s">>, <<"s","c">>,
      <<"s","l">>, <<"s","n">>, <<"s","q">>, <<"s","s">>, <<"s","t">>, <<"s","t","r">>, <<"t">>,
      <<"t","'">>, <<"t","t">>, <<"v">>, <<"v","'">>, <<"v","r">>, <<"v","v">>, <<"x">>,
      <<"x","'">>, <<"z">>, <<"z","'">>, <<>>, <<>>, <<>>, <<>>, <<>>, <<>>, <<>>, <<>>, <<>>,
      <<>>, <<>>
    >>),
    (* slice 13 *)
    Arr(<<
      <<>>, <<"a">>, <<"e">>, <<"i">>, <<"o">>, <<"u">>, <<"a">>, <<"e">>, <<"i">>, <<"o">>,
      <<"u">>, <<"a">>, <<"e">>, <<"i">>, <<"o">>, <<"u">>, <<"o","i">>, <<"i","e">>,
      <<"a","i">>, <<"e","a">>, <<"a","e">>
    >>),
    (* slice 14 *)
    Arr(<<
      <<"d">>, <<"d","s">>, <<"k">>, <<"k","s">>, <<"l">>, <<"l","l">>, <<"l","s">>, <<"n">>,
      <<"n","s">>, <<"r">>, <<"r","s">>, <<"s">>, <<"t">>, <<"t","s">>, <<"t","h">>, <<"x">>,
      <<>>, <<>>, <<>>, <<>>
    >>)
  >>)

(* amazon.ts: characters, 6 slices *)
AmazonCharacters ==
  Arr(<<
    (* slice 0 *)
    Arr(<<
      <<"b">>, <<"b","l">>, <<"b","r">>, <<"c">>, <<"c","h","r">>, <<"c","l">>, <<"c","r">>,
      <<"d">>, <<"d","r">>, <<"f">>, <<"g">>, <<"g","l">>, <<"g","r">>, <<"h">>, <<"j">>,
      <<"k">>, <<"k","l">>, <<"k","r">>, <<"m">>, <<"n">>, <<"p">>, <<"p","h">>, <<"p","s">>,
      <<"p","r">>, <<"r">>, <<"r","h">>, <<"s">>, <<"s","m">>, <<"s","c">>, <<"t">>,
      <<"t","h">>, <<"v">>, <<"x">>, <<>>, <<>>, <<>>, <<>>, <<>>, <<>>, <<>>
    >>),
    (* slice 1 *)
    Arr(<<
      <<"a">>, <<"e">>, <<"i">>, <<"o">>, <<"u">>, <<"y">>, <<"o","u">>, <<"e","i">>,
      <<"o","e">>, <<"a","o">>, <<"i","o">>, <<"e","o">>, <<"a">>, <<"e">>, <<"i">>, <<"o">>,
      <<"u">>
    >>),
    (* slice 2 *)
    Arr(<<
      <<"c">>, <<"d">>, <<"k">>, <<"l">>, <<"m">>, <<"r">>, <<"s">>, <<"t">>, <<"x">>, <<>>,
      <<>>, <<>>, <<>>, <<>>, <<>>, <<>>, <<>>, <<>>, <<>>, <<>>
    >>),
    (* slice 3 *)
    Arr(<<
      <<"c">>, <<"d">>, <<"k">>, <<"l">>, <<"m">>, <<"r">>, <<"s">>, <<"t">>, <<"x">>,
      <<"n","d">>, <<"n","t">>, <<"l","k">>, <<"l","c">>, <<"l","l">>, <<"n","d","r">>,
      <<"b","r">>, <<"s","t">>, <<"c","h">>, <<"b","r">>, <<"c","l">>, <<"p","h">>, <<"r","m">>,
      <<"p","p">>, <<"p","t">>, <<"r","p">>, <<"n","t","h">>, <<"t","h">>, <<"r","g">>,
      <<"t","h","r">>, <<"d","m">>, <<"l","t","h">>, <<"l","c">>, <<"c","h","r">>,
      <<"p","h","n">>, <<"d","r">>, <<"m","n">>, <<"r","r">>, <<"r","r","h">>
    >>),
    (* slice 4 *)
    Arr(<<
      <<"a">>, <<"e">>, <<"i">>, <<"o">>, <<"u">>, <<"y">>, <<>>, <<>>, <<>>, <<>>, <<>>, <<>>,
      <<>>, <<>>, <<>>
    >>),
    (* slice 5 *)
    Arr(<<
      <<"a","d","i","a">>, <<"a","m","e","i","a">>, <<"a","n","t","a">>, <<"a","s","c","a">>,
      <<"c","a","b","e">>, <<"c","e">>, <<"c","l","e","i","a">>, <<"c","y","o","n","e">>,
      <<"c","y","r","a">>, <<"d","a">>, <<"d","a","e">>, <<"d","i","a">>, <<"d","i","c","e">>,
      <<"d","o","r","a">>, <<"e","n","i","c","e">>, <<"e","s","i","a">>,
      <<"e","s","t","r","a">>, <<"e","s","t","r","i","s">>, <<"g","e","a">>,
      <<"g","o","n","e">>, <<"h","a","e","d","r","a">>, <<"h","y","i","a">>,
      <<"i","p","p","e">>, <<"i","s","b","e">>, <<"i","s","e","s">>, <<"l","e","i","a">>,
      <<"l","e","n","e">>, <<"l","e","t","e">>, <<"l","i","o","p","e">>, <<"l","i","p","e">>,
      <<"l","y","t","e">>, <<"m","a","c","h","e">>, <<"m","e","i","a">>,
      <<"n","a","c","h","e">>, <<"n","a","r","a">>, <<"n","e","i","r","a">>,
      <<"n","e","s","t","r","a">>, <<"n","i","a">>, <<"n","i","p","p","e">>, <<"n","o","e">>,
      <<"n","o","u","s","a">>, <<"o","p","e">>, <<"p","a","d","i","a">>, <<"p","e","d","o">>,
      <<"p","e","i","a">>, <<"p","e","s","i","a">>, <<"p","h","a","l","e">>,
      <<"p","y","l","e">>, <<"p","y","t","e">>, <<"r","e","r","a">>, <<"r","e","t","o">>,
      <<"r","o","e">>, <<"s","c","y","r","a">>, <<"s","e","s">>, <<"s","i","p","p","e">>,
      <<"s","o","s","e">>, <<"t","a","n","e">>, <<"t","h","i","p","p","e">>,
      <<"t","h","o","e">>, <<"t","h","y","a">>, <<"t","h","y","e">>, <<"t","h","y","i","a">>,
      <<"y","b","e">>, <<"y","c","h","e">>, <<"y","l","e">>, <<"y","m","e">>, <<"y","n","e">>,
      <<"y","o","p","e">>, <<"y","r","b","e">>, <<"y","t","i","e">>
    >>)
  >>)

(* anansi.ts: characters; slice 0 is the donor corpus, slice 1 the connective vowels. A character outside ASCII is written "U+hhhh", one token per UTF-16 unit of the source text *)
AnansiCharacters ==
  Arr(<<
    (* slice 0 *)
    Arr(<<
      <<"U+00C3","U+00A1","k","r","o","n">>,
      <<"U+00C3","U+00A1","m","U+00CC","U+20AC","m","a">>,
      <<"U+00C3","U+00A1","m","m","U+00C3","U+00A1">>,
      <<"U+00C9","U+201D","k","w","U+00C3","U+00A1","n">>,
      <<"a","b","U+00C3","U+00A9","n","a","a">>, <<"a","b","a">>, <<"a","b","a","k","a">>,
      <<"a","b","e","b","e","r","e","s","e">>, <<"a","b","e","n","a">>,
      <<"a","b","e","n","a","a">>, <<"a","b","e","y","i","e">>,
      <<"a","b","l","U+00C3","U+00A1">>, <<"a","b","l","U+00C3","U+00A3">>,
      <<"a","b","o","a","g","y","e">>, <<"a","b","o","a","h">>, <<"a","b","o","r","a","h">>,
      <<"a","b","o","r","a","m","p","a","h">>, <<"a","b","r","a","f","i">>,
      <<"a","b","r","e","f","a">>, <<"a","b","r","e","m","a">>,
      <<"a","c","h","a","m","f","o","u","r">>, <<"a","c","h","e","a","m","p","o","n","g">>,
      <<"a","c","k","o","n">>, <<"a","c","q","u","a","h">>, <<"a","d","a","d","e">>,
      <<"a","d","d","a","i">>, <<"a","d","d","o">>, <<"a","d","i","y","i","a","h">>,
      <<"a","d","j","o","a">>, <<"a","d","j","o","w","a">>, <<"a","d","j","u","a">>,
      <<"a","d","o","f","o">>, <<"a","d","o","m","a","h">>, <<"a","d","o","m","a","k","o">>,
      <<"a","d","u","s","e","i">>, <<"a","d","w","o","a">>, <<"a","d","w","u","b","i">>,
      <<"a","f","U+00C3","U+00AD">>, <<"a","f","U+00C3","U+00BA","o","m">>,
      <<"a","f","f","u","l">>, <<"a","f","i","r","U+00C3","U+00AD","y","i","e">>,
      <<"a","f","i","r","i","f","a">>, <<"a","f","o","a","k","w","a","h">>,
      <<"a","f","r","a","k","o","m","a">>, <<"a","f","r","a","k","o","m","a","h">>,
      <<"a","f","r","a","m">>, <<"a","f","r","a","n","e">>, <<"a","f","r","e","h">>,
      <<"a","f","r","i","f","a">>, <<"a","f","r","i","y","i","e">>, <<"a","f","u","a">>,
      <<"a","g","y","a","p","o","n","g">>, <<"a","g","y","a","r","e">>, <<"a","g","y","e","i">>,
      <<"a","g","y","e","m","a","n">>, <<"a","g","y","e","m","a","n","g">>,
      <<"a","g","y","e","n","i","m">>, <<"a","h","i","n","f","u","l">>,
      <<"a","j","w","o","b","a">>, <<"a","k","U+00C3","U+00BA","U+00C3","U+00A1">>,
      <<"a","k","U+00C3","U+00BA">>, <<"a","k","a","m","i","n","k","o">>,
      <<"a","k","e","n","t","e","n">>, <<"a","k","e","n","t","e","n","g">>,
      <<"a","k","o","m","e","a","h">>, <<"a","k","o","m","f","r","a","h">>,
      <<"a","k","o","s","a","h">>, <<"a","k","o","s","i">>, <<"a","k","o","s","i","w","a">>,
      <<"a","k","o","s","u","a">>, <<"a","k","o","t","o">>, <<"a","k","r","o","f","i">>,
      <<"a","k","u","a">>, <<"a","k","u","a","m","o","a","h">>, <<"a","k","u","b","a">>,
      <<"a","k","u","f","f","o">>, <<"a","k","u","n">>, <<"a","k","w","a","s","i">>,
      <<"a","k","y","a","w">>, <<"a","m","a">>, <<"a","m","a","k","y","e">>,
      <<"a","m","a","m","f","o">>, <<"a","m","a","n","k","o","n","a">>,
      <<"a","m","a","n","k","o","n","a","h">>, <<"a","m","a","n","k","w","a","h">>,
      <<"a","m","b","a">>, <<"a","m","e">>, <<"a","m","e","y","a","w">>,
      <<"a","m","e","y","o">>, <<"a","m","i">>, <<"a","m","i","s","s","a","h">>,
      <<"a","m","o","a","b","e","n","g">>, <<"a","m","o","a","h">>, <<"a","m","o","a","k","o">>,
      <<"a","m","o","a","t","e","n","g">>, <<"a","m","o","f","a","h">>,
      <<"a","m","p","a","d","u">>, <<"a","m","p","e","m">>, <<"a","m","p","o","f","o">>,
      <<"a","m","p","o","n","s","a","h">>, <<"a","m","p","o","n","s","e","m">>,
      <<"a","n","U+00C3","U+00BA","m">>, <<"a","n","a","n","U+00C3","U+00A9">>,
      <<"a","n","a","n">>, <<"a","n","d","o","h">>, <<"a","n","k","o","b","i","a","h">>,
      <<"a","n","k","o","m","a","h">>, <<"a","n","k","r","a","h">>, <<"a","n","n","a","n">>,
      <<"a","n","o","k","y","e">>, <<"a","n","s","a","h">>, <<"a","n","s","o","n","g">>,
      <<"a","n","t","U+00C3","U+00B3">>, <<"a","p","a","u">>, <<"a","p","p","i","a","h">>,
      <<"a","r","a","b","a">>, <<"a","r","k","o">>, <<"a","r","k","o","r","f","u","l">>,
      <<"a","s","U+00C3","U+00AD">>, <<"a","s","U+00C3","U+00B3","n">>,
      <<"a","s","a","m","o","a","h">>, <<"a","s","a","n","t","e">>,
      <<"a","s","a","n","t","e","w","a","a">>, <<"a","s","a","r","e">>,
      <<"a","s","e","n","s","o">>, <<"a","s","h","i","a">>, <<"a","s","i","a","m","a","h">>,
      <<"a","s","i","e","d","u">>, <<"a","s","o","m","a","d","u">>,
      <<"a","s","o","m","a","n","i","n","g">>, <<"a","s","s","i","f","u","a","h">>,
      <<"a","s","u","b","o","n","t","e","n","g">>, <<"a","t","U+00C3","U+00A1">>,
      <<"a","t","a","U+00C3","U+00A1">>, <<"a","t","o">>, <<"a","w","o","t","w","e">>,
      <<"a","w","o","t","w","i","e">>, <<"a","w","u","a","h">>, <<"a","y","a","w","a">>,
      <<"a","y","e","h">>, <<"a","y","e","n","s","u">>, <<"a","y","e","w">>,
      <<"b","U+00C3","U+00B3","t","w","e">>, <<"b","a","a","b","a">>, <<"b","a","a","f","i">>,
      <<"b","a","a","h">>, <<"b","a","a","k","o">>, <<"b","a","d","U+00C3","U+00BA">>,
      <<"b","a","d","U+00C3","U+00BA","w","a","a">>, <<"b","a","f","f","o","e">>,
      <<"b","a","f","u","o","r">>, <<"b","a","i","d","o","o">>,
      <<"b","a","n","a","h","e","n","e">>, <<"b","a","r","w","u","a","h">>,
      <<"b","e","d","U+00C3","U+00AD","U+00C3"," ","k","U+00E1","U+00B9","U+008D">>,
      <<"b","e","d","i","a","k","o">>, <<"b","e","d","u">>,
      <<"b","e","k","U+00E1","U+00B9","U+008D","e">>, <<"b","e","k","o","e">>,
      <<"b","e","m","a","h">>, <<"b","e","r","k","o">>, <<"b","o","a","d","i">>,
      <<"b","o","a","d","u">>, <<"b","o","a","h","e","n">>, <<"b","o","a","k","y","e">>,
      <<"b","o","a","m","a","h">>, <<"b","o","a","m","p","o","n","g">>,
      <<"b","o","a","s","i","a","k","o">>, <<"b","o","a","t","e","i">>,
      <<"b","o","a","t","e","n","g">>, <<"b","o","n","a","h">>, <<"b","o","n","s","r","a">>,
      <<"b","o","n","s","r","a","h">>, <<"b","o","n","s","u">>,
      <<"b","r","e","m","p","o","n","g">>, <<"b","u","s","i","a">>, <<"b","u","s","i","a","h">>,
      <<"c","o","f","i","e">>, <<"c","r","e","n","t","s","i","l">>, <<"c","u","d","j","o","e">>,
      <<"c","u","f","f","e","e">>, <<"d","U+00C3","U+00BA","k","U+00C5","U+00A9">>,
      <<"d","U+00C3","U+00BA","n","u">>, <<"d","a","a","k","o">>,
      <<"d","a","n","k","w","a","h">>, <<"d","a","n","q","u","a","h">>, <<"d","a","n","s","o">>,
      <<"d","a","p","a","a">>, <<"d","a","p","a","a","h">>, <<"d","a","r","k","o">>,
      <<"d","e","d","e">>, <<"d","e","d","e","i">>, <<"d","i","a","w","u","o">>,
      <<"d","j","a","n">>, <<"d","j","a","n","s","i">>, <<"d","o","m","f","e">>,
      <<"d","o","n","k","o","r">>, <<"d","o","r","k","e","n","o","o">>, <<"d","u","a","h">>,
      <<"d","u","f","i","e">>, <<"d","u","o","d","u">>, <<"d","w","a","m","e","n","a">>,
      <<"d","w","a","m","e","n","a","h">>, <<"d","w","o","m","o","h">>, <<"e","b","o">>,
      <<"e","f","i","a">>, <<"e","f","u","a">>, <<"e","k","o","w">>, <<"e","k","u","a">>,
      <<"e","k","u","o","b","a">>, <<"e","n","n","i","n","f","u","l">>, <<"e","s","i">>,
      <<"e","s","s","i","e","n">>, <<"e","s","s","o","n">>, <<"f","a","r","k","y","i">>,
      <<"f","i","i","f","i">>, <<"f","i","r","i","k","y","i">>, <<"f","o","f","i","e">>,
      <<"f","o","k","u","o">>, <<"f","o","r","d","j","o","u","r">>,
      <<"f","o","r","o","b","u","o","r">>, <<"f","r","e","d","u","a">>,
      <<"f","r","e","d","u","a","h">>, <<"f","r","e","m","a","h">>,
      <<"f","r","e","m","p","o","n">>, <<"f","r","e","m","p","o","n","g">>,
      <<"f","r","i","m","p","o","n","g">>, <<"g","a","d","d","o">>, <<"g","y","a","a","m","a">>,
      <<"g","y","a","k","a","r","i">>, <<"g","y","a","m","a","h">>,
      <<"g","y","a","m","b","i","b","i">>, <<"g","y","a","m","e","r","a">>,
      <<"g","y","a","m","e","r","a","h">>, <<"g","y","a","m","f","i">>, <<"g","y","a","n">>,
      <<"g","y","a","s","i">>, <<"g","y","e","a","b","u","o","r">>, <<"g","y","i","m","a","h">>,
      <<"i","n","k","o","o","m">>, <<"j","o","j","o">>, <<"k","a","a","k","y","i","r","e">>,
      <<"k","a","k","u">>, <<"k","a","n","d","e">>, <<"k","a","r","i","k","a","r","i">>,
      <<"k","a","t","a","k","y","i","e">>, <<"k","e","n","u">>,
      <<"k","o","d","j","U+00C3","U+00B3">>, <<"k","o","d","u","a","h">>,
      <<"k","o","f","U+00C3","U+00AD">>, <<"k","o","f","f","i">>, <<"k","o","f","i">>,
      <<"k","o","j","o">>, <<"k","o","k","o","t","e">>, <<"k","o","k","o","u">>,
      <<"k","o","k","u">>, <<"k","o","m","i">>, <<"k","o","m","l","U+00C3","U+00A1">>,
      <<"k","o","m","l","U+00C3","U+00A3">>, <<"k","o","m","l","a","n">>,
      <<"k","o","n","a","d","u">>, <<"k","o","r","a","n","t","e","n">>,
      <<"k","o","r","a","n","t","e","n","g">>, <<"k","o","r","s","a","h">>, <<"k","o","s","i">>,
      <<"k","o","u","a","s","s","i">>, <<"k","o","w">>, <<"k","u","f","f","o","u","r">>,
      <<"k","u","f","u","o","r">>, <<"k","u","m","a","n","k","a","m","a">>, <<"k","u","m","i">>,
      <<"k","u","s","i">>, <<"k","u","s","i","w","a","a">>, <<"k","u","u","k","u">>,
      <<"k","u","w","a","m","e">>, <<"k","w","U+00C3","U+00A1","m","U+00C3","U+00A8">>,
      <<"k","w","U+00C7","U+017D","m","U+00C3","U+00A8">>, <<"k","w","a","a","t","a">>,
      <<"k","w","a","b","e","n","U+00C3","U+00A1">>, <<"k","w","a","d","w","U+00C3","U+00B3">>,
      <<"k","w","a","k","U+00C3","U+00BA">>, <<"k","w","a","k","y","e">>,
      <<"k","w","a","m","e","n","a">>, <<"k","w","a","m","i">>, <<"k","w","a","m","i","n","a">>,
      <<"k","w","a","r","t","e","n","g">>, <<"k","w","a","s","U+00C3","U+00AD">>,
      <<"k","w","a","s","i","b","a">>, <<"k","w","a","t","e","n","g">>, <<"k","w","a","w">>,
      <<"k","w","a","y","i","e">>, <<"k","w","e","k","u">>, <<"k","w","e","s","i">>,
      <<"k","y","e","i">>, <<"k","y","e","k","y","e","k","u">>, <<"k","y","e","m">>,
      <<"k","y","e","r","e","m","a","t","e","n">>,
      <<"k","y","e","r","e","m","a","t","e","n","g">>, <<"k","y","e","r","e","m","e">>,
      <<"k","y","e","r","e","w","a">>, <<"k","y","e","r","e","w","a","a">>,
      <<"m","U+00C3","U+00A1","a","n","u">>,
      <<"m","U+00C3","U+00A1","n","s","U+00C3","U+00A3">>, <<"m","U+00C7","U+017D","n","u">>,
      <<"m","a","n","s","a","h">>, <<"m","a","n","s","o">>,
      <<"m","e","U+00C5","U+201E","s","U+00C3","U+00A3","U+00CC","U+0081">>,
      <<"m","e","n","s","a","h">>, <<"m","i","n","t","a","h">>, <<"m","i","s","a">>,
      <<"m","m","o","r","o","s","a">>, <<"m","p","o","n","g">>, <<"m","u","n","u","o">>,
      <<"n","U+00C3","U+00BA","m">>, <<"n","a","r","h">>, <<"n","d","u","o","m">>,
      <<"n","i","m","o">>, <<"n","i","m","o","h">>, <<"n","k","a","n","s","a">>,
      <<"n","k","a","n","s","a","h">>, <<"n","k","r","U+00C3","U+00B3","m","a">>,
      <<"n","k","r","u","m","a","h">>,
      <<"n","s","U+00C4","U+00A9","U+00C3","U+00A3","U+00CC","U+0081">>,
      <<"n","s","U+00E1","U+00B9","U+008D","w","a","a">>, <<"n","s","i","a","h">>,
      <<"n","s","o","n","w","a","a">>, <<"n","s","o","n","w","a","h">>, <<"n","s","o","r">>,
      <<"n","t","i","a","m","o","a">>, <<"n","t","i","a","m","o","a","h">>, <<"n","t","i","m">>,
      <<"n","t","o","w">>, <<"n","u","a","m","a","h">>,
      <<"n","y","a","m","U+00C3","U+00A9","a","m","a">>,
      <<"n","y","a","m","U+00C3","U+00A9","k","y","U+00CE","U+00B5">>,
      <<"n","y","a","m","e","k","y","e">>,
      <<"n","y","a","n","k","U+00C3","U+00B3","m","U+00C3"," ","g","U+00C3","U+00B3">>,
      <<"n","y","a","n","k","o","m","a","g","o">>, <<"n","y","a","n","t","a","h">>,
      <<"n","y","a","n","t","a","k","y","i">>, <<"n","y","a","r","k","o">>,
      <<"o","b","U+00C3","U+00AD","m","U+00CC","U+20AC","p","U+00CE","U+00AD">>,
      <<"o","b","e","n","g">>, <<"o","b","u","o","r">>, <<"o","d","u","r","o">>,
      <<"o","f","o","r","i">>, <<"o","f","o","s","u">>, <<"o","g","y","a","m","p","a","h">>,
      <<"o","h","e","m","e","n","g">>, <<"o","h","e","n","e">>, <<"o","k","e","s","e">>,
      <<"o","k","o","r","o","m","a","n","s","a","h">>, <<"o","k","y","e","r","e">>,
      <<"o","m","e","n","a","a">>, <<"o","m","e","n","a","h">>,
      <<"o","p","a","m","b","u","o","r">>, <<"o","p","a","r","e">>, <<"o","p","o","k","u">>,
      <<"o","p","p","o","n","g">>, <<"o","p","u","n","i">>, <<"o","s","a","f","o">>,
      <<"o","s","a","m">>, <<"o","s","e","i">>, <<"o","t","e","n","g">>, <<"o","t","u","o">>,
      <<"o","w","o","a","h","e","n","e">>, <<"o","w","u","s","u">>,
      <<"o","y","i","a","k","w","a","n">>,
      <<"p","U+00C3","U+00AD","U+00C3","U+00A8","s","U+00C3","U+00AD","e">>,
      <<"p","a","i","n","t","s","i","l">>, <<"p","a","p","p","o","e">>,
      <<"p","e","p","r","a","h">>, <<"p","i","n","a","m","a","n">>, <<"p","o","k","u">>,
      <<"p","r","e","m","p","e","h">>, <<"q","u","a","i","n","o","o">>,
      <<"q","u","a","n","s","a","h">>, <<"s","a","f","o">>, <<"s","a","k","y","i">>,
      <<"s","a","r","f","o">>, <<"s","a","r","k","o","d","i","e">>, <<"s","a","r","p","e","i">>,
      <<"s","a","r","p","o","n">>, <<"s","a","r","p","o","n","g">>,
      <<"s","a","s","r","a","k","u">>, <<"s","i","a","b","u","o","r">>, <<"s","i","a","w">>,
      <<"s","i","i","s","i">>, <<"s","i","k","a">>, <<"s","i","k","a","f","u","o">>,
      <<"s","i","n","t","i","m">>, <<"s","i","r","i","b","o","e">>, <<"s","o","a","d","w","a">>,
      <<"s","o","a","d","w","a","h">>, <<"s","o","w","a","h">>,
      <<"t","U+00C3","U+00A1","w","i","a">>, <<"t","a","g","o","e">>, <<"t","a","k","y","i">>,
      <<"t","a","n","d","o","h">>, <<"t","a","w","i","a","h">>, <<"t","u","f","f","o","u","r">>,
      <<"t","w","a","s","a","m">>, <<"t","w","e","n","e","b","o","a">>,
      <<"t","w","e","n","e","b","o","a","h">>, <<"t","w","e","r","e","f","u","o">>,
      <<"t","w","u","m">>, <<"t","w","u","m","a","s","i">>, <<"v","o","r","s","a","h">>,
      <<"w","i","a","f","e">>, <<"w","i","r","e","d","u">>,
      <<"y","U+00CE","U+00B5","m","p","U+00CE","U+00AD","w">>, <<"y","a","a">>,
      <<"y","a","a","b","a">>, <<"y","a","b","a">>, <<"y","a","m","o","a","h">>,
      <<"y","a","n","k","a","h">>, <<"y","a","o">>, <<"y","a","r","t","e","i">>,
      <<"y","a","w">>, <<"y","a","w","o">>, <<"y","e","b","o","a","h">>,
      <<"y","i","a","d","o","m">>, <<"y","o","o","f","i">>
    >>),
    (* slice 1 *)
    Arr(<<
      <<"a">>, <<"e">>, <<"i">>, <<"o">>, <<"u">>, <<"U+00C3","U+00A1">>, <<"U+00C3","U+00A3">>,
      <<"U+00C3","U+00AD">>, <<"U+00C3","U+00BA">>, <<"U+00C3","U+00A9">>, <<"U+00C3","U+00B3">>
    >>)
  >>)

(* angel.ts: list; slice 0 male, slice 1 neutral, slice 2 female *)
AngelList ==
  Arr(<<
    (* slice 0 *)
    Arr(<<
      <<"A","a","r","i","n">>, <<"A","b","a","d","d","o","n">>, <<"A","b","a","l","i","m">>,
      <<"A","b","a","s","d","a","r","h","o","n">>, <<"A","b","b","a","d","o","n">>,
      <<"A","b","d","i","e","l">>, <<"A","b","r","a","r","i","e","l">>,
      <<"A","b","r","a","x","o","s">>, <<"A","d","e","l","l","u","m">>,
      <<"A","d","i","m","u","s">>, <<"A","d","n","a","c","h","i","e","l">>,
      <<"A","d","o","e","l">>, <<"A","d","o","n","a","e","l">>, <<"A","d","r","i","e","l">>,
      <<"A","f","r","i","e","l">>, <<"A","i","t","h","e","n">>,
      <<"A","k","h","a","z","r","i","e","l">>, <<"A","k","r","i","e","l">>,
      <<"A","m","b","r","i","e","l">>, <<"A","m","i","t","i","e","l">>,
      <<"A","m","n","a","y","e","l","t","h">>, <<"A","m","r","i","e","l">>,
      <<"A","n","a","e","l">>, <<"A","n","a","h","e","l">>, <<"A","n","a","i","e","l">>,
      <<"A","n","a","k">>, <<"A","n","a","k","i","m">>, <<"A","n","a","p","h","i","e","l">>,
      <<"A","n","a","p","i","e","l">>, <<"A","n","a","u","e","l">>, <<"A","n","p","i","e","l">>,
      <<"A","n","s","i","e","l">>, <<"A","p","h","a","e","l","e","o","n">>,
      <<"A","p","p","o","l","o","i","n">>, <<"A","p","p","o","l","y","o","n">>,
      <<"A","r","a","e","l">>, <<"A","r","a","k","i","b","a">>, <<"A","r","a","l","i","m">>,
      <<"A","r","a","q","i","e","l">>, <<"A","r","a","q","u","i","e","l">>,
      <<"A","r","a","r","i","e","l">>, <<"A","r","a","t","o","n">>, <<"A","r","c","h","o","n">>,
      <<"A","r","i","o","c","h">>, <<"A","r","i","u","k">>, <<"A","r","m","a","r","o","s">>,
      <<"A","s","m","o","d","e","i">>, <<"A","s","m","o","d","e","l">>,
      <<"A","s","t","e","r","a","o","t","h">>, <<"A","t","h","e","e","d">>,
      <<"A","z","a","z","e","l">>, <<"A","z","r","a","e","l">>, <<"A","z","r","i","e","l">>,
      <<"B","a","g","l","i","s">>, <<"B","a","l","l","a","t","o","n">>,
      <<"B","a","l","t","h","i","a","l">>, <<"B","a","l","t","h","i","o","u","l">>,
      <<"B","a","r","a","c","h","i","e","l">>, <<"B","a","r","a","d","i","e","l">>,
      <<"B","a","r","a","k","i","e","l">>, <<"B","a","r","a","q","i","e","l">>,
      <<"B","a","r","a","t","t","i","e","l">>, <<"B","a","r","b","e","l","o">>,
      <<"B","a","r","b","i","e","l">>, <<"B","a","r","c","h","i","e","l">>,
      <<"B","a","r","i","e","l">>, <<"B","a","r","q","u","i","e","l">>,
      <<"B","a","r","r","a","t","t","i","e","l">>,
      <<"B","a","r","t","h","o","l","o","m","e","w">>, <<"B","a","r","u","c","h","i","e","l">>,
      <<"B","a","z","a","z","a","t","h">>, <<"B","e","t","h","o","r">>,
      <<"B","o","a","m","i","e","l">>, <<"B","o","e","l">>, <<"B","r","i","a","t","h","o","s">>,
      <<"C","a","d","r","i","e","l">>, <<"C","a","h","e","t","h","a","l">>,
      <<"C","a","m","a","e","l">>, <<"C","a","m","i","e","l">>,
      <<"C","a","p","h","r","i","e","l">>, <<"C","a","s","s","i","e","l">>,
      <<"C","a","s","t","i","e","l">>, <<"C","a","t","h","e","t","e","l">>,
      <<"C","e","r","v","i","e","l">>, <<"C","h","a","m","u","e","l">>,
      <<"C","h","a","r","o","u","m">>, <<"C","h","a","s","a","n">>,
      <<"C","h","a","y","l","i","e","l">>, <<"C","h","e","r","u","b","i","m">>,
      <<"C","o","n","a","h">>, <<"D","a","b","r","i","e","l">>, <<"D","a","g","i","e","l">>,
      <<"D","a","l","q","u","i","e","l">>, <<"D","a","m","a","b","i","a","t","h">>,
      <<"D","a","n","i","e","l">>, <<"D","a","r","d","a","r","i","e","l">>,
      <<"D","i","n","i","e","l">>, <<"D","o","m","i","e","l">>, <<"D","o","u","m","a">>,
      <<"D","u","b","b","i","e","l">>, <<"E","c","a","n","u","s">>, <<"E","l","i","j","a","h">>,
      <<"E","l","y","o","n">>, <<"E","m","m","a","n","u","e","l">>,
      <<"E","m","p","y","r","e","a","n">>, <<"E","r","a","t","h","a","o","l">>,
      <<"E","r","e","l","i","m">>, <<"E","r","e","m","i","e","l">>,
      <<"E","z","e","k","i","e","l">>, <<"E","z","e","q","u","i","e","l">>,
      <<"F","o","r","c","a","s">>, <<"F","o","r","f","a","x">>, <<"G","a","b","r","i","e","l">>,
      <<"G","a","d","i","e","l">>, <<"G","a","d","r","e","e","l">>,
      <<"G","a","d","r","i","e","l">>, <<"G","a","g","a","l","l","i","m">>,
      <<"G","a","g","i","e","l">>, <<"G","a","l","g","a","l","i","e","l">>,
      <<"G","a","l","i","z","u","r">>, <<"G","a","z","a","r","d","i","e","l">>,
      <<"G","e","b","u","r","a","t","i","e","l">>, <<"G","e","r","m","a","e","l">>,
      <<"G","i","b","b","o","r","i","m">>, <<"G","r","i","g","o","r","i">>,
      <<"H","a","b","r","i","e","l">>, <<"H","a","d","a","r","i","e","l">>,
      <<"H","a","d","r","a","m","i","e","l">>, <<"H","a","d","r","a","n","i","e","l">>,
      <<"H","a","d","r","i","e","l">>, <<"H","a","m","a","e","l">>,
      <<"H","a","m","a","l","i","e","l">>, <<"H","a","m","i","e","d">>, <<"H","a","m","o","n">>,
      <<"H","a","n","i","e","l">>, <<"H","a","r","a","h","e","l">>, <<"H","a","r","o","t","h">>,
      <<"H","a","r","u","t">>, <<"H","a","s","d","i","e","l">>, <<"H","a","s","h","m","a","l">>,
      <<"H","a","s","m","a","l">>, <<"H","a","y","l","i","e","l">>, <<"H","a","y","y","e","l">>,
      <<"H","e","m","a","n">>, <<"H","e","r","c","h","e","l">>,
      <<"H","e","r","m","e","s","i","e","l">>, <<"H","o","c","h","m","a","e","l">>,
      <<"H","o","f","n","i","e","l">>, <<"H","u","m","a","t","i","e","l">>,
      <<"H","u","m","i","e","l">>, <<"I","a","h","h","e","l">>, <<"I","a","o","e","l">>,
      <<"I","a","o","t","h">>, <<"I","n","i","a","n">>, <<"I","n","i","a","s">>,
      <<"I","s","h","i","m">>, <<"I","s","r","a","f","e","l">>,
      <<"I","s","r","a","f","i","e","l">>, <<"I","s","r","a","f","i","l">>,
      <<"I","t","h","u","r","i","e","l">>, <<"I","z","r","a","i","l">>,
      <<"J","a","b","r","i","l">>, <<"J","a","e","l">>, <<"J","a","h","o","e","l">>,
      <<"J","a","m","a","e","r","a","h">>, <<"J","a","o","e","l">>,
      <<"J","e","d","u","t","h","u","n">>, <<"J","e","h","o","e","l">>,
      <<"J","e","h","u","d","i","e","l">>, <<"J","e","r","a","h","m","e","e","l">>,
      <<"J","e","r","e","m","i","e","l">>, <<"J","o","s","h","u","a">>,
      <<"K","a","b","s","h","i","e","l">>, <<"K","a","d","m","i","e","l">>,
      <<"K","a","f","z","i","e","l">>, <<"K","a","k","a","b","e","l">>,
      <<"K","a","l","a","z","i","e","l">>, <<"K","a","r","a","e","l">>,
      <<"K","a","r","l","e","l">>, <<"K","a","s","b","i","e","l">>, <<"K","e","m","u","e","l">>,
      <<"K","e","r","u","b","i","e","l">>, <<"K","e","z","e","f">>,
      <<"K","h","a","m","a","e","l">>, <<"L","a","b","b","i","e","l">>,
      <<"L","a","h","a","b","i","e","l">>, <<"L","e","o">>,
      <<"M","a","c","h","i","d","i","e","l">>, <<"M","a","d","a","n">>,
      <<"M","a","h","a","n","a","i","m">>, <<"M","a","l","a","c","h","i">>,
      <<"M","a","l","a","k","h">>, <<"M","a","l","c","h","e","d","i","e","l">>,
      <<"M","a","l","i","k">>, <<"M","a","n","a","k","e","l">>, <<"M","a","r","i","u","k">>,
      <<"M","a","r","o">>, <<"M","e","l","k","y","a","l">>, <<"M","e","n","d","r","i","o","n">>,
      <<"M","i","c","a","h">>, <<"M","i","c","h","a","e","l">>, <<"M","i","h","a","e","l">>,
      <<"M","i","h","r">>, <<"M","i","k","h","a","l">>, <<"M","i","t","a","t","r","o","n">>,
      <<"M","o","r","a","e","l">>, <<"M","o","r","i","e","s","h","a","l">>,
      <<"M","u","n","k","a","r">>, <<"M","u","n","k","i","r">>, <<"M","y","d","a","i","e","l">>,
      <<"N","a","a","r","i","r","i","e","l">>, <<"N","a","h","a","l","i","e","l">>,
      <<"N","a","k","i","r">>, <<"N","a","n","a","e","l">>,
      <<"N","a","r","c","a","r","i","e","l">>, <<"N","a","s","a","r","g","i","e","l">>,
      <<"N","a","t","h","a","n","a","e","l">>, <<"N","a","t","h","a","n","i","e","l">>,
      <<"N","e","l","c","h","a","e","l">>, <<"N","e","p","h","i","l","i","m">>,
      <<"N","i","s","r","o","c">>, <<"O","m","a","e","l">>, <<"O","m","n","i","e","l">>,
      <<"O","n","a","f","i","e","l">>, <<"O","n","g","k","a","n","o","n">>,
      <<"O","n","o","e","l">>, <<"O","p","h","a","n","i","e","l">>,
      <<"O","p","h","a","n","i","m">>, <<"O","p","h","i","e","l">>,
      <<"O","r","p","h","a","m","i","e","l">>, <<"O","s","m","a","d","i","e","l">>,
      <<"P","a","h","a","d","r","o","n">>, <<"P","a","m","y","e","l">>,
      <<"P","a","s","c","h","a","r">>, <<"P","a","t","h","i","e","l">>,
      <<"P","e","l","i","e","l">>, <<"P","e","n","i","e","l">>,
      <<"P","e","r","p","e","t","i","e","l">>, <<"P","h","a","l","e","g">>,
      <<"P","h","a","n","u","e","l">>, <<"P","h","u","l">>, <<"P","r","a","v","u","i","l">>,
      <<"P","r","e","n","t","u","m">>, <<"Q","a","p","h","s","i","e","l">>,
      <<"Q","a","s","p","i","e","l">>, <<"Q","u","a","b","r","i","e","l">>,
      <<"R","a","b","d","o","s">>, <<"R","a","c","h","m","i","e","l">>,
      <<"R","a","d","u","e","r","i","e","l">>, <<"R","a","d","u","r","i","e","l">>,
      <<"R","a","h","a","t","i","e","l">>, <<"R","a","h","m","i","e","l">>,
      <<"R","a","m","i","e","l">>, <<"R","a","m","p","e","l">>, <<"R","a","p","h","a","e","l">>,
      <<"R","a","s","i","e","l">>, <<"R","a","t","h","a","n","a","e","l">>,
      <<"R","a","z","a","e","l">>, <<"R","a","z","i","e","l">>, <<"R","e","h","a","e","l">>,
      <<"R","e","m","i","e","l">>, <<"R","e","m","l","i","e","l">>,
      <<"R","h","a","m","i","e","l">>, <<"R","i","d","w","a","n">>,
      <<"R","i","k","b","i","e","l">>, <<"R","i","s","n","u","c","h">>,
      <<"R","i","z","o","e","l">>, <<"R","o","g","z","i","e","l">>,
      <<"R","o","s","t","i","e","l","l","o">>, <<"R","u","f","e","a","l">>,
      <<"R","u","h","i","e","l">>, <<"R","u","m","a","n">>, <<"S","a","b","a","o","t","h">>,
      <<"S","a","b","a","t","h","i","e","l">>, <<"S","a","b","l","o">>,
      <<"S","a","b","r","a","e","l">>, <<"S","a","b","r","a","t","h","a","n">>,
      <<"S","a","c","h","a","e","l">>, <<"S","a","c","h","i","e","l">>,
      <<"S","a","l","a","t","h","i","e","l">>, <<"S","a","m","a","e","l">>,
      <<"S","a","m","a","n","d","i","r","i","e","l">>,
      <<"S","a","m","a","n","d","r","i","e","l">>, <<"S","a","m","k","i","e","l">>,
      <<"S","a","m","m","a","e","l">>, <<"S","a","m","u","e","l">>,
      <<"S","a","n","d","a","l","p","h","o","n">>, <<"S","a","n","d","o","l","p","h","o","n">>,
      <<"S","a","n","i","e","l">>, <<"S","a","r","a","n","d","i","e","l">>,
      <<"S","a","r","e","a","s","h">>, <<"S","a","r","i","e","l">>,
      <<"S","a","t","q","i","e","l">>, <<"S","e","a","l","t","i","e","l">>,
      <<"S","e","m","a","l","i","o","n">>, <<"S","e","m","a","n","g","e","l","a","f">>,
      <<"S","e","m","s","a","p","i","e","l">>, <<"S","e","m","y","a","z","a">>,
      <<"S","e","r","a","p","h">>, <<"S","e","r","a","p","h","i","e","l">>,
      <<"S","h","a","m","s","i","e","l">>, <<"S","h","e","p","h","e","r","d">>,
      <<"S","h","o","f","t","i","e","l">>, <<"S","i","d","q","i","e","l">>,
      <<"S","i","d","r","i","e","l">>, <<"S","i","m","i","e","l">>,
      <<"S","i","z","o","u","z","e">>, <<"S","o","r","a","t","h">>, <<"S","o","r","u","s","h">>,
      <<"S","t","a","d","i","e","l">>, <<"S","u","r","i","e","l">>,
      <<"T","a","b","b","r","i","s">>, <<"T","a","b","r","i","s">>,
      <<"T","a","d","h","i","e","l">>, <<"T","a","g","a","s">>, <<"T","a","m","i","e","l">>,
      <<"T","a","r","s","h","i","s","h","i","m">>, <<"T","a","r","t","y","s">>,
      <<"T","a","t","r","a","s","i","e","l">>, <<"T","e","a","r","n","e","y">>,
      <<"T","e","l","a","n","t","e","s">>, <<"T","e","m","e","l","u","c","h">>,
      <<"T","e","m","l","a","k","o","s">>, <<"T","e","r","i","e","s","h">>,
      <<"T","h","e","l","i","e","l">>, <<"T","h","e","o">>, <<"T","u","b","i","e","l">>,
      <<"T","u","r","i","e","l">>, <<"T","z","a","d","k","i","e","l">>, <<"U","s","i","e","l">>,
      <<"U","s","i","u">>, <<"U","z","z","i","e","l">>, <<"V","a","l","o","e","l">>,
      <<"V","a","r","h","m","i","e","l">>, <<"V","e","q","u","a","n","i","e","l">>,
      <<"V","e","r","c","h","i","e","l">>, <<"V","i","r","g","i","l">>,
      <<"V","o","h","a","m","a","n","a","h">>, <<"V","r","e","t","i","e","l">>,
      <<"X","a","p","h","a","n">>, <<"X","a","t","h","a","n","a","e","l">>,
      <<"Y","a","b","b","a","s","h","a","e","l">>, <<"Y","a","h","o","e","l">>,
      <<"Y","e","f","e","f","i","a","h">>, <<"Y","e","h","u","d","i","a","h">>,
      <<"Y","e","r","a","c","h","m","i","e","l">>, <<"Y","e","s","h","a","m","i","e","l">>,
      <<"Y","o","f","i","e","l">>, <<"Z","a","a","p","i","e","l">>,
      <<"Z","a","a","z","e","n","a","c","h">>, <<"Z","a","b","k","i","e","l">>,
      <<"Z","a","c","h","a","r","a","e","l">>, <<"Z","a","c","h","a","r","i","a","h">>,
      <<"Z","a","c","h","a","r","i","e","l">>, <<"Z","a","c","h","r","i","e","l">>,
      <<"Z","a","d","k","e","i","l">>, <<"Z","a","d","k","i","e","l">>,
      <<"Z","a","g","z","a","g","e","l">>, <<"Z","a","k","u","m">>,
      <<"Z","a","k","z","a","k","i","e","l">>, <<"Z","a","m","b","r","i","m">>,
      <<"Z","a","p","h","i","e","l">>, <<"Z","a","p","h","k","i","e","l">>,
      <<"Z","a","p","h","r","e","a","l">>, <<"Z","a","r","a","l","l">>,
      <<"Z","a","z","r","i","e","l">>, <<"Z","e","h","a","n","p","u","r","y","u">>,
      <<"Z","e","p","h","o","n">>, <<"Z","e","r","a","c","h","i","e","l">>,
      <<"Z","o","p","h","i","e","l">>, <<"Z","u","p","h","l","a","s">>,
      <<"Z","u","r","i","e","l">>
    >>),
    (* slice 1 *)
    Arr(<<
      <<"A","a","r","i","n">>, <<"A","d","e","l","l","u","m">>, <<"A","d","o","e","l">>,
      <<"A","d","r","i","e","l">>, <<"A","m","b","r","i","e","l">>,
      <<"A","m","i","t","i","e","l">>, <<"A","m","n","a","y","e","l">>,
      <<"A","m","r","i","e","l">>, <<"A","n","a","e","l">>, <<"A","n","a","h","e","l">>,
      <<"A","n","a","i","e","l">>, <<"A","n","a","p","h","i","e","l">>,
      <<"A","n","a","p","i","e","l">>, <<"A","n","a","u","e","l">>, <<"A","r","a","e","l">>,
      <<"A","r","a","q","i","e","l">>, <<"A","r","a","q","u","i","e","l">>,
      <<"A","r","a","r","i","e","l">>, <<"A","r","i","u","k">>,
      <<"A","s","t","e","r","a","o","t","h">>, <<"A","z","a","z","e","l">>,
      <<"A","z","r","a","e","l">>, <<"A","z","r","i","e","l">>, <<"B","a","r","b","i","e","l">>,
      <<"B","o","a","m","i","e","l">>, <<"B","o","e","l">>, <<"C","a","d","r","i","e","l">>,
      <<"C","a","p","h","r","i","e","l">>, <<"C","a","s","s","i","e","l">>,
      <<"C","a","t","h","e","t","e","l">>, <<"C","e","r","v","i","e","l">>,
      <<"C","h","a","s","a","n">>, <<"C","o","n","a","h">>, <<"D","a","b","r","i","e","l">>,
      <<"D","a","r","d","a","r","i","e","l">>, <<"D","i","n","i","e","l">>,
      <<"D","o","m","i","e","l">>, <<"D","o","u","m","a">>, <<"D","u","b","b","i","e","l">>,
      <<"E","m","p","y","r","e","a","n">>, <<"G","a","b","r","i","e","l">>,
      <<"G","a","d","i","e","l">>, <<"G","a","d","r","e","e","l">>,
      <<"G","a","d","r","i","e","l">>, <<"G","a","g","i","e","l">>,
      <<"G","a","l","g","a","l","i","e","l">>, <<"G","e","b","u","r","a","t","i","e","l">>,
      <<"G","e","r","m","a","e","l">>, <<"H","a","b","r","i","e","l">>,
      <<"H","a","d","a","r","i","e","l">>, <<"H","a","d","r","a","m","i","e","l">>,
      <<"H","a","d","r","a","n","i","e","l">>, <<"H","a","d","r","i","e","l">>,
      <<"H","a","m","a","l","i","e","l">>, <<"H","a","n","i","e","l">>,
      <<"H","a","r","a","h","e","l">>, <<"H","a","y","l","i","e","l">>,
      <<"H","a","y","y","e","l">>, <<"H","u","m","a","t","i","e","l">>,
      <<"H","u","m","i","e","l">>, <<"I","a","h","h","e","l">>, <<"I","a","o","e","l">>,
      <<"I","a","o","t","h">>, <<"I","t","h","u","r","i","e","l">>, <<"I","z","r","a","i","l">>,
      <<"J","a","b","r","i","l">>, <<"J","a","m","a","e","r","a","h">>, <<"J","a","o","e","l">>,
      <<"K","a","k","a","b","e","l">>, <<"K","a","r","a","e","l">>, <<"K","a","r","l","e","l">>,
      <<"L","a","b","b","i","e","l">>, <<"L","a","h","a","b","i","e","l">>,
      <<"M","a","d","a","n">>, <<"M","a","h","a","n","a","i","m">>, <<"M","a","r","o","t","h">>,
      <<"M","i","c","a","h">>, <<"M","i","h","r">>, <<"M","o","r","a","e","l">>,
      <<"M","y","d","a","i","e","l">>, <<"N","a","a","r","i","r","i","e","l">>,
      <<"N","a","h","a","l","i","e","l">>, <<"N","a","n","a","e","l">>,
      <<"O","m","n","i","e","l">>, <<"O","n","o","e","l">>, <<"O","p","h","a","n","i","m">>,
      <<"O","p","h","i","e","l">>, <<"P","a","m","y","e","l">>, <<"P","e","l","i","e","l">>,
      <<"P","e","n","i","e","l">>, <<"P","e","r","p","e","t","i","e","l">>,
      <<"Q","u","a","b","r","i","e","l">>, <<"R","a","d","u","e","r","i","e","l">>,
      <<"R","a","d","u","r","i","e","l">>, <<"R","a","h","a","t","i","e","l">>,
      <<"R","a","h","m","i","e","l">>, <<"R","a","m","i","e","l">>, <<"R","e","h","a","e","l">>,
      <<"R","e","m","i","e","l">>, <<"R","e","m","l","i","e","l">>,
      <<"R","h","a","m","i","e","l">>, <<"R","u","h","i","e","l">>,
      <<"S","a","b","r","a","e","l">>, <<"S","a","c","h","a","e","l">>,
      <<"S","a","c","h","i","e","l">>, <<"S","a","l","a","t","h","i","e","l">>,
      <<"S","a","n","i","e","l">>, <<"S","a","r","a","n","d","i","e","l">>,
      <<"S","a","r","e","a","s","h">>, <<"S","a","r","i","e","l">>,
      <<"S","e","m","y","a","z","a">>, <<"S","e","r","a","p","h">>,
      <<"S","h","o","f","t","i","e","l">>, <<"S","i","z","o","u","z","e">>,
      <<"S","u","r","i","e","l">>, <<"T","a","b","b","r","i","s">>, <<"T","a","b","r","i","s">>,
      <<"T","a","d","h","i","e","l">>, <<"T","a","r","t","y","s">>,
      <<"T","a","t","r","a","s","i","e","l">>, <<"T","e","l","a","n","t","e","s">>,
      <<"T","h","e","l","i","e","l">>, <<"U","s","i","e","l">>, <<"U","s","i","u">>,
      <<"V","a","l","o","e","l">>, <<"V","e","q","u","a","n","i","e","l">>,
      <<"V","e","r","c","h","i","e","l">>, <<"V","i","r","g","i","l">>,
      <<"V","o","h","a","m","a","n","a","h">>, <<"V","r","e","t","i","e","l">>,
      <<"X","a","t","h","a","n","a","e","l">>, <<"Y","a","h","o","e","l">>,
      <<"Y","o","f","i","e","l">>, <<"Z","a","r","a","l","l">>, <<"Z","a","z","r","i","e","l">>,
      <<"Z","o","p","h","i","e","l">>, <<"Z","u","r","i","e","l">>
    >>),
    (* slice 2 *)
    Arr(<<
      <<"A","a","r","i","n">>, <<"A","d","e","l","l","u","m">>, <<"A","d","e","l","p","h","i">>,
      <<"A","d","o","e","l">>, <<"A","d","r","i","e","l">>, <<"A","e","s","h","m","a">>,
      <<"A","g","l","a">>, <<"A","h","i","a","h">>, <<"A","l","i","y","a","h">>,
      <<"A","m","a","l","i","e","l">>, <<"A","m","b","r","i","e","l">>,
      <<"A","m","i","t","i","e","l">>, <<"A","m","n","a","y","e","l">>,
      <<"A","m","r","i","e","l">>, <<"A","n","a","e","l">>, <<"A","n","a","h","e","l">>,
      <<"A","n","a","h","i","t","a">>, <<"A","n","a","i","e","l">>,
      <<"A","n","a","p","h","i","e","l">>, <<"A","n","a","p","i","e","l">>,
      <<"A","n","a","u","e","l">>, <<"A","n","d","r","o","m","e","d","a">>,
      <<"A","r","a","e","l">>, <<"A","r","a","q","i","e","l">>,
      <<"A","r","a","q","u","i","e","l">>, <<"A","r","a","r","i","e","l">>,
      <<"A","r","i","e","l">>, <<"A","r","i","u","k">>, <<"A","r","m","a","i","t","a">>,
      <<"A","s","a","p","h">>, <<"A","s","a","r","i","e","l">>, <<"A","s","h","e","a","l">>,
      <<"A","s","h","l","i","e","l">>, <<"A","s","t","e","r","a","o","t","h">>,
      <<"A","s","u","r","i","e","l">>, <<"A","t","r","u","g","i","e","l">>, <<"A","y","i","l">>,
      <<"A","z","a","z","e","l">>, <<"A","z","r","a","e","l">>, <<"A","z","r","i","e","l">>,
      <<"B","a","r","b","i","e","l">>, <<"B","o","a","m","i","e","l">>, <<"B","o","e","l">>,
      <<"B","r","e","e","n","e","l","l","e">>, <<"C","a","d","r","i","e","l">>,
      <<"C","a","p","h","r","i","e","l">>, <<"C","a","s","s","i","e","l">>,
      <<"C","a","t","h","e","t","e","l">>, <<"C","e","r","v","i","e","l">>,
      <<"C","h","a","r","m","e","i","n","e">>, <<"C","h","a","s","a","n">>,
      <<"C","o","n","a","h">>, <<"C","o","r","e","t","h","a">>, <<"D","a","b","r","i","e","l">>,
      <<"D","a","h","l","i","a">>, <<"D","a","p","h","i","e","l">>,
      <<"D","a","r","d","a","r","i","e","l">>, <<"D","a","z","i","e","l","l","e">>,
      <<"D","i","n","a">>, <<"D","i","n","i","e","l">>, <<"D","o","m","i","e","l">>,
      <<"D","o","u","m","a">>, <<"D","u","b","b","i","e","l">>, <<"D","u","m","a">>,
      <<"D","u","m","a","h">>, <<"E","a","e">>, <<"E","i","a","e","l">>,
      <<"E","l","e","m","i","a","h">>, <<"E","m","p","y","r","e","a","n">>,
      <<"E","p","h","e","m","e","r","a">>, <<"E","s","h","r","e","a","l">>, <<"E","s","m","e">>,
      <<"E","s","t","h","e","r">>, <<"E","x","o","u","s","i","a">>, <<"F","e","l","i","c","e">>,
      <<"F","e","o","t","a">>, <<"G","a","b","r","i","e","l">>, <<"G","a","d","i","e","l">>,
      <<"G","a","d","r","e","e","l">>, <<"G","a","d","r","i","e","l">>,
      <<"G","a","g","i","e","l">>, <<"G","a","l","g","a","l","i","e","l">>,
      <<"G","a","m","a","l","i","e","l">>, <<"G","a","t","r","i","e","l">>,
      <<"G","a","v","r","e","e","l">>, <<"G","e","b","u","r","a","t","i","e","l">>,
      <<"G","e","r","m","a","e","l">>, <<"G","e","z","u","r","i","y","a">>,
      <<"G","u","r","i","e","l">>, <<"G","z","r","e","l">>, <<"H","a","a","m","i","a","h">>,
      <<"H","a","b","r","i","e","l">>, <<"H","a","d","a","r","i","e","l">>,
      <<"H","a","d","r","a","m","i","e","l">>, <<"H","a","d","r","a","n","i","e","l">>,
      <<"H","a","d","r","i","e","l">>, <<"H","a","e","l">>, <<"H","a","g","i","t","h">>,
      <<"H","a","l","a","l","i","e","l">>, <<"H","a","m","a","l","i","e","l">>,
      <<"H","a","n","i","e","l">>, <<"H","a","n","n","a","h">>, <<"H","a","n","n","i","a","h">>,
      <<"H","a","r","a","h","e","l">>, <<"H","a","y","l","i","e","l">>,
      <<"H","a","y","y","e","l">>, <<"H","a","z","i","e","l">>, <<"H","e","c","c","a">>,
      <<"H","e","m","a","h">>, <<"H","e","s","t","e","r">>, <<"H","u","m","a","t","i","e","l">>,
      <<"H","u","m","i","e","l">>, <<"I","a","h","h","e","l">>, <<"I","a","o","e","l">>,
      <<"I","a","o","t","h">>, <<"I","n","a","s","y","a","h">>, <<"I","o","f","i","e","l">>,
      <<"I","r","i","n">>, <<"I","s","d","a">>, <<"I","t","h","u","r","i","e","l">>,
      <<"I","z","r","a","i","l">>, <<"J","a","b","r","i","l">>,
      <<"J","a","m","a","e","r","a","h">>, <<"J","a","o","e","l">>,
      <<"J","e","f","i","s","c","h","a">>, <<"J","o","p","h","i","e","l">>,
      <<"K","a","k","a","b","e","l">>, <<"K","a","l","m","i","y","a">>,
      <<"K","a","r","a","e","l">>, <<"K","a","r","l","e","l">>, <<"K","a","s","d","e","j","a">>,
      <<"K","r","i","s","t","i","e","l">>, <<"L","a","b","b","i","e","l">>,
      <<"L","a","h","a","b","i","e","l">>, <<"L","a","i","l","a","h">>,
      <<"L","a","u","r","e","t","t","e">>, <<"L","a","v","i","n","a">>, <<"L","a","y","l","a">>,
      <<"L","a","y","l","a","h">>, <<"L","i","e","l">>, <<"L","i","w","e","t">>,
      <<"M","a","d","a","n">>, <<"M","a","h","a","n","a","i","m">>, <<"M","a","i","o","n">>,
      <<"M","a","l","a","l","i","e","l">>, <<"M","a","l","i","e","l">>,
      <<"M","a","r","i","e","l">>, <<"M","a","r","m","a","r","o","t","h">>,
      <<"M","a","r","o","t","h">>, <<"M","a","s","t","e","m","a">>,
      <<"M","a","t","a","r","i","e","l">>, <<"M","a","t","t","i","a">>, <<"M","i","c","a","h">>,
      <<"M","i","c","h","e","l","l","e">>, <<"M","i","h","r">>, <<"M","i","n","d","a">>,
      <<"M","i","n","i","e","l">>, <<"M","o","r","a","e","l">>, <<"M","u","m","i","a","h">>,
      <<"M","u","m","i","e","l">>, <<"M","u","r","i","e","l">>, <<"M","y","d","a","i","e","l">>,
      <<"N","a","a","r","i","r","i","e","l">>, <<"N","a","h","a","l","i","e","l">>,
      <<"N","a","n","a","e","l">>, <<"N","a","o","m","i">>, <<"N","a","y","a","'","i","l">>,
      <<"N","e","m","a","m","i","a","h">>, <<"N","e","r","i","a","h">>,
      <<"N","u","r","i","e","l">>, <<"O","m","n","i","e","l">>, <<"O","n","o","e","l">>,
      <<"O","o","n","i","e","m","m","e">>, <<"O","p","h","a","n","i","m">>,
      <<"O","p","h","i","e","l">>, <<"O","r","i","a","s","h">>, <<"O","r","i","e","l">>,
      <<"O","r","i","f","i","e","l">>, <<"O","r","i","p","h","i","e","l">>,
      <<"O","u","r","i","e","l">>, <<"P","a","h","a","l","i","a","h">>,
      <<"P","a","m","y","e","l">>, <<"P","e","l","i","e","l">>, <<"P","e","n","e","m","u">>,
      <<"P","e","n","e","m","u","e","l">>, <<"P","e","n","i","e","l">>,
      <<"P","e","r","p","e","t","i","e","l">>, <<"P","e","s","a","g","n","i","y","a","h">>,
      <<"P","h","o","u","n","e","b","i","e","l">>, <<"P","o","r","t","i","a">>,
      <<"P","r","o","n","o","i","a">>, <<"P","u","r","a","h">>, <<"P","u","r","i","e","l">>,
      <<"Q","a","d","d","i","s","i","n">>, <<"Q","u","a","b","r","i","e","l">>,
      <<"R","a","c","h","e","l">>, <<"R","a","c","h","i","e","l">>,
      <<"R","a","d","u","e","r","i","e","l">>, <<"R","a","d","u","r","i","e","l">>,
      <<"R","a","g","u","e","l">>, <<"R","a","h","a","t","i","e","l">>,
      <<"R","a","h","m","i","e","l">>, <<"R","a","m","i","e","l">>, <<"R","e","h","a","e","l">>,
      <<"R","e","m","i","e","l">>, <<"R","e","m","l","i","e","l">>,
      <<"R","h","a","m","i","e","l">>, <<"R","u","h","i","e","l">>,
      <<"S","a","b","r","a","e","l">>, <<"S","a","c","h","a","e","l">>,
      <<"S","a","c","h","i","e","l">>, <<"S","a","h","a","q","i","e","l">>,
      <<"S","a","l","a","t","h","i","e","l">>, <<"S","a","n","i","e","l">>,
      <<"S","a","n","s","a","n","v","i">>, <<"S","a","n","v","i">>,
      <<"S","a","r","a","k","i","e","l">>, <<"S","a","r","a","n","d","i","e","l">>,
      <<"S","a","r","a","q","a","e","l">>, <<"S","a","r","a","q","u","i","e","l">>,
      <<"S","a","r","e","a","s","h">>, <<"S","a","r","i","e","l">>,
      <<"S","e","m","y","a","z","a">>, <<"S","e","r","a","p","h">>,
      <<"S","h","o","f","t","i","e","l">>, <<"S","i","z","o","u","z","e">>,
      <<"S","o","f","i","e","l">>, <<"S","o","p","h","e","r","i","e","l">>,
      <<"S","o","p","h","i","a">>, <<"S","r","a","o","s","h","a">>, <<"S","u","r","i","e","l">>,
      <<"S","y","b","i","l">>, <<"T","a","b","b","r","i","s">>, <<"T","a","b","r","i","s">>,
      <<"T","a","d","h","i","e","l">>, <<"T","a","h","a","r","i","a","l">>,
      <<"T","a","r","t","y","s">>, <<"T","a","t","r","a","s","i","e","l">>,
      <<"T","e","l","a","n","t","e","s">>, <<"T","e","m","p","e","r","a","n","c","e">>,
      <<"T","h","e","l","i","e","l">>, <<"U","b","a","v","i","e","l">>,
      <<"U","m","a","b","e","l">>, <<"U","r","i","e","l">>, <<"U","s","i","e","l">>,
      <<"U","s","i","u">>, <<"V","a","l","o","e","l">>, <<"V","e","q","u","a","n","i","e","l">>,
      <<"V","e","r","c","h","i","e","l">>, <<"V","i","r","g","i","l">>,
      <<"V","o","h","a","m","a","n","a","h">>, <<"V","r","e","t","i","e","l">>,
      <<"X","a","t","h","a","n","a","e","l">>, <<"Y","a","h","o","e","l">>,
      <<"Y","o","f","i","e">>, <<"Z","a","r","a","l","l">>, <<"Z","a","z","r","i","e","l">>,
      <<"Z","o","p","h","i","e","l">>, <<"Z","u","r","i","e","l">>
    >>)
  >>)

(* sensitivity-check.ts: words, the blocklist *)
Words ==
  Arr(<<
    <<"a","l","a","h">>, <<"a","l","l","a","h">>, <<"a","n","a","l">>,
    <<"a","n","i","l","i","n","g","u","s">>, <<"a","n","u","s">>,
    <<"a","p","e","s","h","i","t">>, <<"a","r","s","e">>, <<"a","r","s","e","h","o","l","e">>,
    <<"a","s","s">>, <<"a","s","s","h","o","l","e">>, <<"a","s","s","m","u","n","c","h">>,
    <<"a","u","t","o","e","r","o","t","i","c">>, <<"b","a","b","e","l","a","n","d">>,
    <<"b","a","l","l","s">>, <<"b","a","l","l","s","a","c","k">>,
    <<"b","a","n","g","b","r","o","s">>, <<"b","a","r","e","b","a","c","k">>,
    <<"b","a","r","e","n","a","k","e","d">>, <<"b","a","s","t","a","r","d">>,
    <<"b","a","s","t","a","r","d","o">>, <<"b","a","s","t","i","n","a","d","o">>,
    <<"b","e","a","n","e","r">>, <<"b","e","a","n","e","r","s">>,
    <<"b","e","s","t","i","a","l","i","t","y">>, <<"b","i","a","t","c","h">>,
    <<"b","i","g","t","i","t","s">>, <<"b","i","m","b","o","s">>,
    <<"b","i","r","d","l","o","c","k">>, <<"b","i","t","c","h">>,
    <<"b","i","t","c","h","e","s">>, <<"b","l","a","c","k">>, <<"b","l","o","o","d","y">>,
    <<"b","l","o","w","j","o","b">>, <<"b","l","u","m","p","k","i","n">>,
    <<"b","o","l","l","o","c","k">>, <<"b","o","l","l","o","c","k","s">>,
    <<"b","o","l","l","o","k">>, <<"b","o","n","d","a","g","e">>, <<"b","o","n","e","r">>,
    <<"b","o","o","b">>, <<"b","o","o","b","s">>, <<"b","u","g","g","e","r">>,
    <<"b","u","k","k","a","k","e">>, <<"b","u","l","l","d","y","k","e">>,
    <<"b","u","l","l","s","h","i","t">>, <<"b","u","m">>, <<"b","u","n","g","h","o","l","e">>,
    <<"b","u","s","t","y">>, <<"b","u","t","t">>, <<"b","u","t","t","c","h","e","e","k","s">>,
    <<"b","u","t","t","h","o","l","e">>, <<"b","u","t","t","p","l","u","g">>,
    <<"c","a","m","e","l","t","o","e">>, <<"c","a","m","g","i","r","l">>,
    <<"c","a","m","s","l","u","t">>, <<"c","a","m","w","h","o","r","e">>, <<"c","l","i","t">>,
    <<"c","l","i","t","b","e","a","r","d">>, <<"c","l","i","t","o","r","i","s">>,
    <<"c","l","o","a","k","a">>, <<"c","l","u","s","t","e","r","f","u","c","k">>,
    <<"c","o","c","k">>, <<"c","o","c","k","s">>, <<"c","o","o","n">>, <<"c","o","o","n","s">>,
    <<"c","o","r","n","h","o","l","e">>, <<"c","r","a","p">>,
    <<"c","r","e","a","m","p","i","e">>, <<"c","r","y","s","t","a","l","n","i","g","h","t">>,
    <<"c","r","y","s","t","a","l"," ","n","i","g","h","t">>, <<"c","u","m">>,
    <<"c","u","m","m","i","n","g">>, <<"c","u","n","t">>, <<"d","a","m","n">>,
    <<"d","a","r","k","i","e">>, <<"d","a","t","e","r","a","p","e">>,
    <<"d","e","e","p","t","h","r","o","a","t">>, <<"d","i","c","k">>, <<"d","i","l","d","o">>,
    <<"d","o","g","g","y">>, <<"d","o","l","c","e","t","t">>,
    <<"d","o","m","i","n","a","t","i","o","n">>, <<"d","o","m","i","n","a","t","r","i","x">>,
    <<"d","o","m","m","e","s">>, <<"d","r","y","h","u","m","p">>, <<"d","y","k","e">>,
    <<"e","c","c","h","i">>, <<"e","j","a","c","u","l","a","t","i","o","n">>,
    <<"e","r","o","t","i","c">>, <<"e","r","o","t","i","s","m">>, <<"e","s","c","o","r","t">>,
    <<"e","u","n","u","c","h">>, <<"f","a","g">>, <<"f","a","g","s">>,
    <<"f","a","g","g","e","t">>, <<"f","a","g","g","e","t","s">>, <<"f","a","g","g","i","t">>,
    <<"f","a","g","g","i","t","s">>, <<"f","a","g","g","o","t">>,
    <<"f","a","g","g","o","t","s">>, <<"f","a","g","g","u","t">>, <<"f","a","g","h","e","t">>,
    <<"f","a","g","h","i","t">>, <<"f","a","g","h","o","t">>, <<"f","a","g","h","u","t">>,
    <<"f","e","c","a","l">>, <<"f","e","c","k">>, <<"f","e","l","c","h">>,
    <<"f","e","l","c","h","i","n","g">>, <<"f","e","l","l","a","t","e">>,
    <<"f","e","l","l","a","t","i","o">>, <<"f","e","l","t","c","h">>,
    <<"f","e","m","d","o","m">>, <<"f","e","t","i","s","h">>, <<"f","i","g","g","i","n","g">>,
    <<"f","i","n","g","e","r","b","a","n","g">>, <<"f","i","n","g","e","r","i","n","g">>,
    <<"f","i","s","t","i","n","g">>, <<"f","l","a","n","g","e">>,
    <<"f","o","o","t","j","o","b">>, <<"f","r","o","t","t","i","n","g">>, <<"f","u","c","k">>,
    <<"f","u","c","k","i","n">>, <<"f","u","c","k","i","n","g">>,
    <<"f","u","c","k","t","a","r","d">>, <<"f","u","c","k","t","a","r","d","s">>,
    <<"f","u","d","g","e","p","a","c","k","e","r">>, <<"f","u","t","a","n","a","r","i">>,
    <<"g","a","n","g","b","a","n","g">>, <<"g","a","y","s","e","x">>,
    <<"g","e","n","i","t","a","l","s">>, <<"g","o","a","t","c","x">>,
    <<"g","o","a","t","s","e">>, <<"g","o","d">>, <<"g","o","d","d","a","m","n">>,
    <<"g","o","k","k","u","n">>, <<"g","o","o","d","p","o","o","p">>,
    <<"g","o","o","g","i","r","l">>, <<"g","o","o","k">>, <<"g","o","r","e","g","a","s","m">>,
    <<"g","r","o","p","e">>, <<"g","r","o","u","p","s","e","x">>, <<"g","u","r","o">>,
    <<"h","a","n","d","j","o","b">>, <<"h","a","r","d","c","o","r","e">>, <<"h","e","l","l">>,
    <<"h","e","n","t","a","i">>, <<"h","o","m","o">>,
    <<"h","o","m","o","e","r","o","t","i","c">>, <<"h","o","n","k","e","y">>,
    <<"h","o","o","k","e","r">>, <<"h","u","m","p","i","n","g">>, <<"i","n","c","e","s","t">>,
    <<"i","n","t","e","r","c","o","u","r","s","e">>, <<"j","a","c","k","o","f","f">>,
    <<"j","a","i","l","b","a","i","t">>, <<"j","e","r","k">>, <<"j","e","r","k","o","f","f">>,
    <<"j","i","g","a","b","o","o">>, <<"j","i","g","g","a","b","o","o">>,
    <<"j","i","g","g","e","r","b","o","o">>, <<"j","i","z","z">>, <<"j","u","g","g","s">>,
    <<"k","i","k","e">>, <<"k","i","n","b","a","k","u">>, <<"k","i","n","k","s","t","e","r">>,
    <<"k","i","n","k","y">>, <<"k","n","o","b","b","i","n","g">>,
    <<"k","n","o","b","e","n","d">>, <<"k","u","m">>, <<"l","a","b","i","a">>,
    <<"l","m","a","o">>, <<"l","m","f","a","o">>, <<"l","o","l","i","t","a">>,
    <<"m","a","l","e","a","s","s">>, <<"m","a","s","t","u","r","b","a","t","e">>,
    <<"m","i","l","f">>, <<"m","u","f","f">>, <<"n","a","m","b","l","a">>,
    <<"n","a","w","a","s","h","i">>, <<"n","a","z","i">>, <<"n","e","e","g","e","r">>,
    <<"n","e","e","g","g","e","r">>, <<"n","e","g","g","e","r">>, <<"n","e","g","r","o">>,
    <<"n","e","o","n","a","z","i">>, <<"n","i","e","g","e","r">>,
    <<"n","i","e","g","g","e","r">>, <<"n","i","g">>, <<"n","i","g","a">>,
    <<"n","i","g","a","r">>, <<"n","i","g","e","r">>, <<"n","i","g","g","a">>,
    <<"n","i","g","h","a","r">>, <<"n","i","g","a","h">>, <<"n","i","g","g","a","h">>,
    <<"n","y","g">>, <<"n","y","g","a">>, <<"n","y","g","a","h">>, <<"n","y","g","g","e","r">>,
    <<"n","y","g","g","a","h">>, <<"n","y","g","g","a","r">>, <<"n","y","g","e","r">>,
    <<"n","y","g","r","a">>, <<"n","i","g","g","a","r">>, <<"n","i","g","g","a","s">>,
    <<"n","i","g","i","r">>, <<"n","i","g","g","i","r">>, <<"n","i","g","i","r","r">>,
    <<"n","i","g","g","i","r","r">>, <<"n","i","g","g","a","z">>, <<"n","i","g","g","e","r">>,
    <<"n","i","g","g","e","r","s">>, <<"n","i","g","g","e","s">>, <<"n","i","g","g","i","r">>,
    <<"n","i","g","g","i","s">>, <<"n","i","g","g","o","r">>, <<"n","i","g","g","o","s">>,
    <<"n","i","g","g","u","r">>, <<"n","i","g","g","u","s">>, <<"n","i","g","g","r","e","r">>,
    <<"n","i","g","g","r","e","t">>, <<"n","i","g","h","e","r">>, <<"n","i","g","h","e","s">>,
    <<"n","i","g","n","o","g">>, <<"n","i","g","r","a">>,
    <<"n","i","m","p","h","o","m","a","n","i","a">>, <<"n","i","p","p","l","e">>,
    <<"n","i","p","p","l","e","s">>, <<"n","u","d","e">>, <<"n","u","d","i","t","y">>,
    <<"n","y","m","p","h","o">>, <<"n","y","m","p","h","o","m","a","n","i","a">>,
    <<"o","b","a","m","a">>, <<"o","c","t","o","p","u","s","s","y">>, <<"o","m","g">>,
    <<"o","m","o","r","a","s","h","i">>, <<"o","r","a","l">>, <<"o","r","g","a","s","m">>,
    <<"o","r","g","y">>, <<"p","a","e","d","o">>, <<"p","a","k","i">>,
    <<"p","a","n","t","i","e","s">>, <<"p","a","n","t","y">>, <<"p","e","d","o">>,
    <<"p","e","g","g","i","n","g">>, <<"p","e","n","i","s">>, <<"p","i","s">>,
    <<"p","i","s","s">>, <<"p","i","s","s","i","n","g">>, <<"p","i","s","s","p","i","g">>,
    <<"p","l","a","y","b","o","y">>, <<"p","o","n","y","p","l","a","y">>, <<"p","o","o","f">>,
    <<"p","o","o","n">>, <<"p","o","o","n","t","a","n","g">>, <<"p","o","o","p">>,
    <<"p","o","r","n">>, <<"p","o","r","n","o">>, <<"p","r","i","c","k">>, <<"p","u","b","e">>,
    <<"p","u","b","e","s">>, <<"p","u","n","a","n","y">>, <<"p","u","s","s","y">>,
    <<"q","u","e","a","f">>, <<"q","u","e","e","f">>, <<"q","u","e","e","r">>,
    <<"q","u","i","m">>, <<"r","a","g","h","e","a","d">>, <<"r","a","p","e">>,
    <<"r","a","p","i","n","g">>, <<"r","a","p","i","s","t">>, <<"r","e","c","t","u","m">>,
    <<"r","i","m","j","o","b">>, <<"r","i","m","m","i","n","g">>, <<"s","a","d","i","s","m">>,
    <<"s","a","n","t","o","r","u","m">>, <<"s","c","a","t">>, <<"s","c","h","l","o","n","g">>,
    <<"s","c","i","s","s","o","r","i","n","g">>, <<"s","c","r","o","t","u","m">>,
    <<"s","e","m","e","n">>, <<"s","e","x">>, <<"s","e","x","o">>, <<"s","e","x","y">>,
    <<"s","e","x","x">>, <<"s","e","x","x","y">>, <<"s","e","x","e","i">>,
    <<"s","e","x","x","e","i">>, <<"s","h","a","v","e","d">>, <<"s","h","e","m","a","l","e">>,
    <<"s","h","i","b","a","r","i">>, <<"s","h","i","t">>,
    <<"s","h","i","t","b","l","i","m","p">>, <<"s","h","i","t","t","y">>,
    <<"s","h","o","t","a">>, <<"s","h","r","i","m","p","i","n","g">>, <<"s","k","e","e","t">>,
    <<"s","l","a","n","t","e","y","e">>, <<"s","l","u","t">>, <<"s","m","e","g","m","a">>,
    <<"s","m","u","t">>, <<"s","n","a","t","c","h">>, <<"s","o","d","o","m","i","z","e">>,
    <<"s","o","d","o","m","y">>, <<"s","p","i","c">>, <<"s","p","l","o","o","g","e">>,
    <<"s","p","o","o","g","e">>, <<"s","p","u","n","k">>, <<"s","q","u","a","w">>,
    <<"s","t","r","a","p","o","n">>, <<"s","u","c","k">>, <<"s","u","c","k","s">>,
    <<"s","u","i","c","i","d","e">>, <<"s","u","l","t","r","y">>,
    <<"s","w","a","s","t","i","k","a">>, <<"s","w","i","n","g","e","r">>,
    <<"t","h","r","e","e","s","o","m","e">>, <<"t","h","r","o","a","t","i","n","g">>,
    <<"t","i","i","t","s">>, <<"t","i","t">>, <<"t","i","t","s">>,
    <<"t","i","t","t","i","e","s">>, <<"t","i","t","t","y">>, <<"t","o","p","l","e","s","s">>,
    <<"t","o","s","s","e","r">>, <<"t","o","w","e","l","h","e","a","d">>,
    <<"t","r","a","n","i">>, <<"t","r","a","n","i","e">>, <<"t","r","a","n","n","i">>,
    <<"t","r","a","n","n","i","e">>, <<"t","r","a","n","n","y">>, <<"t","r","a","n","y">>,
    <<"t","r","e","n","n","i","e">>, <<"t","u","b","g","i","r","l">>, <<"t","u","r","d">>,
    <<"t","u","s","h","y">>, <<"t","w","a","t">>, <<"t","w","i","n","k">>,
    <<"t","w","i","n","k","i","e">>, <<"u","p","s","k","i","r","t">>,
    <<"u","r","e","t","h","r","a">>, <<"u","r","o","p","h","i","l","i","a">>,
    <<"v","a","g","i","n","a">>, <<"v","i","b","r","a","t","o","r">>,
    <<"v","o","y","e","u","r">>, <<"v","u","l","v","a">>, <<"w","a","n","k">>,
    <<"w","e","t","b","a","c","k">>, <<"w","h","o","r","e">>, <<"w","t","f">>,
    <<"y","a","o","i">>, <<"y","i","f","f","y">>, <<"s","t","i","l","l","b","o","r","n">>
  >>)

(***************************************************************************)
(* Configuration constants and registries                                  *)
(***************************************************************************)

(* COUNT, the batch size; alien.ts, amazon.ts, anansi.ts and angel.ts each
   set COUNT = 10 *)
COUNT == 2

(* MAX_ATTEMPTS, the retry cap; alien.ts, amazon.ts and anansi.ts each set
   MAX_ATTEMPTS = 1000 *)
MAX_ATTEMPTS == 3

AlienPATTERN_COUNT == 3

AmazonPATTERN_COUNT == 2

AlienPATTERNS ==
  Arr(<< [indices |-> Arr(<<0, 1, 2, 3, 4>>), conflictIdx |-> 2],
         [indices |-> Arr(<<5, 6, 7, 8, 9>>), conflictIdx |-> 7],
         [indices |-> Arr(<<10, 11, 12, 13, 14>>), conflictIdx |-> 12] >>)

AmazonPATTERNS ==
  Arr(<< [indices |-> Arr(<<0, 1, 2, 4, 5>>), conflictIdx |-> 2],
         [indices |-> Arr(<<0, 1, 3, 1, 5>>), conflictIdx |-> 3] >>)

ALIEN == <<"a","l","i","e","n">>

AMAZON == <<"a","m","a","z","o","n">>

ANANSI == <<"a","n","a","n","s","i">>

ANGEL == <<"a","n","g","e","l">>

ANIMAL_SPECIES == <<"a","n","i","m","a","l","-","s","p","e","c","i","e","s">>

(* the keys of the generators registry, in insertion order *)
generators == Arr(<<ALIEN, AMAZON, ANANSI, ANGEL, ANIMAL_SPECIES>>)

(* the property names every object literal inherits from Object.prototype;
   generators[key] finds them as well *)
ObjectPrototypeKeys ==
  { <<"c","o","n","s","t","r","u","c","t","o","r">>,
    <<"_","_","p","r","o","t","o","_","_">>,
    <<"h","a","s","O","w","n","P","r","o","p","e","r","t","y">>,
    <<"i","s","P","r","o","t","o","t","y","p","e","O","f">>,
    <<"p","r","o","p","e","r","t","y","I","s","E","n","u","m","e","r","a","b","l","e">>,
    <<"t","o","L","o","c","a","l","e","S","t","r","i","n","g">>,
    <<"t","o","S","t","r","i","n","g">>,
    <<"v","a","l","u","e","O","f">>,
    <<"_","_","d","e","f","i","n","e","G","e","t","t","e","r","_","_">>,
    <<"_","_","d","e","f","i","n","e","S","e","t","t","e","r","_","_">>,
    <<"_","_","l","o","o","k","u","p","G","e","t","t","e","r","_","_">>,
    <<"_","_","l","o","o","k","u","p","S","e","t","t","e","r","_","_">> }

(* generators[normalizedType]: "own" for a registered generator, "inherited"
   for a member of Object.prototype, "undefined" otherwise *)
Lookup(normalizedType) ==
  IF Includes(generators, normalizedType) THEN "own"
  ELSE IF normalizedType \in ObjectPrototypeKeys THEN "inherited"
  ELSE "undefined"

(* two further tables a pattern generator is run on.  Scenario A: slice 0 =
   {"k","g"}, slice 1 = {"a","e"}, slice 2 = {"k","g"}, one pattern [0,1,2]
   whose conflict slice 2 is its last element *)
SCENARIO_A == <<"scenario A">>

ScenarioACharacters ==
  Arr(<< Arr(<< <<"k">>, <<"g">> >>), Arr(<< <<"a">>, <<"e">> >>),
         Arr(<< <<"k">>, <<"g">> >>) >>)

ScenarioAPATTERNS == Arr(<< [indices |-> Arr(<<0, 1, 2>>), conflictIdx |-> 2] >>)

(* a malformed table: the conflict slice 1 has the single candidate "a",
   which is the only candidate of its neighbour slice 2 *)
MALFORMED == <<"malformed">>

MalformedCharacters ==
  Arr(<< Arr(<< <<"k">> >>), Arr(<< <<"a">> >>), Arr(<< <<"a">> >>) >>)

MalformedPATTERNS == Arr(<< [indices |-> Arr(<<0, 1, 2>>), conflictIdx |-> 1] >>)

(* the tables generate with patterns runs on *)
PatternTables == {ALIEN, AMAZON, SCENARIO_A, MALFORMED}

(* the characters table and the patterns of a pattern generator *)
Characters(t) ==
  IF t = ALIEN THEN AlienCharacters
  ELSE IF t = SCENARIO_A THEN ScenarioACharacters
  ELSE IF t = MALFORMED THEN MalformedCharacters
  ELSE AmazonCharacters

PATTERNS(t) ==
  IF t = ALIEN THEN AlienPATTERNS
  ELSE IF t = SCENARIO_A THEN ScenarioAPATTERNS
  ELSE IF t = MALFORMED THEN MalformedPATTERNS
  ELSE AmazonPATTERNS

(* a pattern count one above the number of patterns *)
PatternCountOneMore(t) == Length(PATTERNS(t)) + 1

PATTERN_COUNT(t) ==
  IF t = ALIEN THEN AlienPATTERN_COUNT
  ELSE IF t = AMAZON THEN AmazonPATTERN_COUNT
  ELSE Length(PATTERNS(t))

(***************************************************************************)
(* The random source                                                       *)
(***************************************************************************)

(* the values of Math.floor(Math.random() * characters[i].length) explored
   for slice i of the alien table: "" for slice 0; "a"; "n", ""; "", "a";
   "l"; "b"; "a"; "c"; "a"; ""; ""; "a"; "s", ""; "", "a"; "s" *)
AlienDraws ==
  Arr(<< {24}, {5}, {2, 65}, {0, 1}, {4},
         {0}, {5}, {0}, {0}, {0},
         {39}, {8}, {10, 126}, {0, 1}, {11} >>)

(* the same for the amazon table: ""; "a", "e"; "c", "", ""; "c"; "a", "";
   "ce" *)
AmazonDraws == Arr(<< {33}, {0, 1}, {0, 9, 10}, {0}, {0, 6}, {5} >>)

(* every candidate of the two small tables *)
ScenarioADraws == Arr(<< {0, 1}, {0, 1}, {0, 1} >>)

MalformedDraws == Arr(<< {0}, {0}, {0} >>)

Draws(t) ==
  IF t = ALIEN THEN AlienDraws
  ELSE IF t = SCENARIO_A THEN ScenarioADraws
  ELSE IF t = MALFORMED THEN MalformedDraws
  ELSE AmazonDraws

(* the donor words explored for the anansi corpus: "aba", "darko", "cofie" *)
AnansiDraws == {5, 189, 177}

(* the connective vowels explored: "a" and the two-unit entry 5 *)
VowelDraws == {0, 5}

(* the entries explored for the angel lists male, neutral, female:
   "Aarin", "Abaddon"; "Aarin", "Adellum"; "Aarin", "Adelphi" *)
AngelDraws == Arr(<< {0, 1}, {0, 1}, {0, 2} >>)

(* for (let i = 0; i < characters.length; i++) indices[i] = random: the
   arrays of length n the loop can build, as sequences *)
RECURSIVE DrawIndices(_, _)
DrawIndices(draws, n) ==
  IF n = 0 THEN {<<>>}
  ELSE {Append(f, k) : f \in DrawIndices(draws, n - 1), k \in draws[n - 1]}

(***************************************************************************)
(* SensitivityCheck and the pattern generators' pure parts                 *)
(***************************************************************************)

(* SensitivityCheck with the comparison reversed: words.indexOf(name) !== -1 *)
SensitivityCheckInverted(word) ==
  LET name == ToLowerCase(word)
  IN  IndexOf(Words, name) # -1

(* SensitivityCheck without the toLowerCase call *)
SensitivityCheckCaseSensitive(word) == IndexOf(Words, word) = -1

SensitivityCheck(word) ==
  LET name == ToLowerCase(word)
  IN  IndexOf(Words, name) = -1

(* the conflict loop's condition without its second comparison *)
ConflictPrevOnly(characters, pattern, ind) ==
  LET conflictIdx == pattern.conflictIdx
      conflictPos == IndexOf(pattern.indices, conflictIdx)
      prev == pattern.indices[conflictPos - 1]
  IN  characters[prev][ind[prev]] = characters[conflictIdx][ind[conflictIdx]]

(* the while condition of the conflict loop is true: the conflict slice's
   fragment equals the fragment of prev or, that failing, of next *)
Conflict(characters, pattern, ind) ==
  LET conflictIdx == pattern.conflictIdx
      conflictPos == IndexOf(pattern.indices, conflictIdx)
      prev == pattern.indices[conflictPos - 1]
      next == pattern.indices[conflictPos + 1]
  IN  /\ (conflictPos - 1) \in DOMAIN pattern.indices
      /\ \/ characters[prev][ind[prev]] = characters[conflictIdx][ind[conflictIdx]]
         \/ /\ (conflictPos + 1) \in DOMAIN pattern.indices
            /\ characters[conflictIdx][ind[conflictIdx]] = characters[next][ind[next]]

(* a missing neighbour read as a fragment that equals nothing *)
ConflictThrowsNever(characters, pattern, ind) == FALSE

(* the evaluation of the while condition throws a TypeError: prev or next is
   undefined (pattern.indices read outside its bounds), so characters[prev]
   or characters[next] is undefined and its element is read.  The second
   comparison is evaluated only when the first is false *)
ConflictThrows(characters, pattern, ind) ==
  LET conflictIdx == pattern.conflictIdx
      conflictPos == IndexOf(pattern.indices, conflictIdx)
      prev == pattern.indices[conflictPos - 1]
  IN  IF (conflictPos - 1) \notin DOMAIN pattern.indices THEN TRUE
      ELSE IF characters[prev][ind[prev]] = characters[conflictIdx][ind[conflictIdx]]
        THEN FALSE
        ELSE (conflictPos + 1) \notin DOMAIN pattern.indices

(* the name built with the draws indexed by position in the pattern *)
AssembleByPosition(characters, pattern, ind) ==
  Join([k \in DOMAIN pattern.indices |-> characters[pattern.indices[k]][ind[k]]])

(* pattern.indices.map(idx => characters[idx][indices[idx]]).join('') *)
Assemble(characters, pattern, ind) ==
  Join([k \in DOMAIN pattern.indices |-> characters[pattern.indices[k]][ind[pattern.indices[k]]]])

(***************************************************************************)
(* State                                                                   *)
(***************************************************************************)
VARIABLES
  pc,              \* position of the running call
  type,            \* generateNames: the argument
  normalizedType,  \* generateNames: type.toLowerCase()
  names,           \* the generator's names, [kind, val]
  gender,          \* the key of names the running for loop fills
  i,               \* the for loop's counter
  name,            \* generate: name
  attempts,        \* generate: attempts
  patternIdx,      \* alien, amazon generate: patternIdx, -1 outside a draft
  indices,         \* alien, amazon generate: indices
  redrawn,         \* whether the conflict loop's body ran in this draft
  random,          \* anansi generate: random
  result,          \* how generateNames settled
  arg,             \* the argument of a direct call of one function
  res,             \* the value of that call
  drafts,          \* generate: the iterations of the while loop begun in this call
  awaiting,        \* the calls of generateNames suspended at await response.json()
  value,           \* NameGenerator: the state value
  items            \* NameGenerator: the state items

vars == <<pc, type, normalizedType, names, gender, i, name, attempts, patternIdx,
          indices, redrawn, random, result, arg, res, drafts, awaiting,
          value, items>>

NoNames == [kind |-> "none", val |-> <<>>]

NoResult == [kind |-> "none", text |-> "", type |-> <<>>, available |-> <<>>, value |-> <<>>]

NoArg == [fn |-> "none"]

NoRes == [fn |-> "none"]

(* the arguments generateNames is called with *)
Types ==
  { ALIEN, <<"A","l","i","e","n">>, AMAZON, <<"A","m","a","z","o","n">>, ANANSI, ANGEL,
    <<"A","N","G","E","L">>, <<"d","w","a","r","f">>, <<"D","w","a","r","f">>,
    <<"b","a","n","d","i","t">>, <<"c","o","n","s","t","r","u","c","t","o","r">>,
    <<"C","o","n","s","t","r","u","c","t","o","r">> }

(* const names = ... at the head of each generator *)
InitialNames(t) ==
  IF t = AMAZON THEN [kind |-> "array", val |-> <<>>]
  ELSE IF t = ANGEL
    THEN [kind |-> "object", val |-> [neutral |-> <<>>, male |-> <<>>, female |-> <<>>]]
    ELSE [kind |-> "object", val |-> [neutral |-> <<>>]]

(* the message of the error thrown for an unsupported type: the template's
   two substitutions *)
Unsupported(t) ==
  [kind |-> "error", text |-> "Name generator type is not supported. Available types:",
   type |-> t, available |-> generators, value |-> <<>>]

ProgramInit ==
  /\ pc = "idle"
  /\ type = <<>>
  /\ normalizedType = <<>>
  /\ names = NoNames
  /\ gender = ""
  /\ i = 0
  /\ name = <<>>
  /\ attempts = 0
  /\ patternIdx = -1
  /\ indices = <<>>
  /\ redrawn = FALSE
  /\ random = <<>>
  /\ result = NoResult
  /\ arg = NoArg
  /\ res = NoRes
  /\ drafts = 0
  /\ awaiting = <<>>
  /\ value = <<>>
  /\ items = [neutral |-> <<>>]

NoLocals ==
  /\ name' = <<>>
  /\ attempts' = 0
  /\ patternIdx' = -1
  /\ indices' = <<>>
  /\ redrawn' = FALSE
  /\ random' = <<>>
  /\ drafts' = 0

(***************************************************************************)
(* generateNames                                                           *)
(***************************************************************************)

(* generateNames(t) with no generator under the key: throws before the try *)
RequestUnsupported ==
  \E t \in Types :
    /\ pc \in {"idle", "returned", "thrown", "selected"}
    /\ Lookup(ToLowerCase(t)) = "undefined"
    /\ type' = t
    /\ normalizedType' = ToLowerCase(t)
    /\ result' = Unsupported(t)
    /\ pc' = "thrown"
    /\ names' = NoNames
    /\ gender' = ""
    /\ i' = 0
    /\ NoLocals
    /\ UNCHANGED <<arg, res, awaiting,
                 value, items>>

(* generateNames(t) where generators[key] is a member of Object.prototype:
   the value is truthy, calling it or reading its result throws a TypeError
   inside the try, which the catch rethrows *)
RequestInherited ==
  \E t \in Types :
    /\ pc \in {"idle", "returned", "thrown", "selected"}
    /\ Lookup(ToLowerCase(t)) = "inherited"
    /\ type' = t
    /\ normalizedType' = ToLowerCase(t)
    /\ result' = [NoResult EXCEPT !.kind = "error", !.text = "TypeError"]
    /\ pc' = "thrown"
    /\ names' = NoNames
    /\ gender' = ""
    /\ i' = 0
    /\ NoLocals
    /\ UNCHANGED <<arg, res, awaiting,
                 value, items>>

(* generateNames(t) with a registered generator: generator() starts *)
RequestGenerator ==
  \E t \in Types :
    /\ pc \in {"idle", "returned", "thrown", "selected"}
    /\ Lookup(ToLowerCase(t)) = "own"
    /\ ToLowerCase(t) # ANIMAL_SPECIES
    /\ type' = t
    /\ normalizedType' = ToLowerCase(t)
    /\ result' = NoResult
    /\ names' = InitialNames(ToLowerCase(t))
    /\ gender' = IF ToLowerCase(t) = AMAZON THEN "" ELSE "neutral"
    /\ i' = 0
    /\ pc' = "batch"
    /\ NoLocals
    /\ UNCHANGED <<arg, res, awaiting,
                 value, items>>

(* for (let i = 0; i < COUNT; i++) names...[i] = generate(): generate starts *)
CallGenerate ==
  /\ pc = "batch"
  /\ normalizedType # ANGEL
  /\ i < COUNT
  /\ name' = <<>>
  /\ attempts' = 0
  /\ pc' = "loop"
  /\ drafts' = 0
  /\ UNCHANGED <<type, normalizedType, names, gender, i, patternIdx, indices, redrawn,
                 random, result, arg, res, awaiting,
                 value, items>>

(* the loop's exit at the cap, returning the empty string instead of name *)
ExhaustedReturnsEmpty ==
  /\ pc = "loop"
  /\ ~(attempts < MAX_ATTEMPTS)
  /\ pc' = "ret"
  /\ name' = <<>>
  /\ UNCHANGED <<type, normalizedType, names, gender, i, attempts, patternIdx,
                 indices, redrawn, random, result, arg, res, drafts, awaiting,
                 value, items>>

(* while (attempts < MAX_ATTEMPTS) is false: return name *)
Exhausted ==
  /\ pc = "loop"
  /\ ~(attempts < MAX_ATTEMPTS)
  /\ pc' = "ret"
  /\ UNCHANGED <<type, normalizedType, names, gender, i, name, attempts, patternIdx,
                 indices, redrawn, random, result, arg, res, drafts, awaiting,
                 value, items>>

(* alien, amazon: the head of one iteration: patternIdx and indices are drawn *)
Draft ==
  /\ pc = "loop"
  /\ normalizedType \in PatternTables
  /\ attempts < MAX_ATTEMPTS
  /\ \E p \in 0..(PATTERN_COUNT(normalizedType) - 1) :
       \E f \in DrawIndices(Draws(normalizedType), Length(Characters(normalizedType))) :
         /\ patternIdx' = p
         /\ indices' = Arr(f)
  /\ redrawn' = FALSE
  /\ pc' = "resolve"
  /\ drafts' = drafts + 1
  /\ UNCHANGED <<type, normalizedType, names, gender, i, name, attempts, random, result,
                 arg, res, awaiting,
                 value, items>>

(* the body of the conflict loop drawing the right neighbour's slice as well *)
RedrawWithNeighbour ==
  /\ pc = "resolve"
  /\ LET pattern == PATTERNS(normalizedType)[patternIdx]
         next == pattern.indices[IndexOf(pattern.indices, pattern.conflictIdx) + 1]
     IN  /\ ~ConflictThrows(Characters(normalizedType), pattern, indices)
         /\ Conflict(Characters(normalizedType), pattern, indices)
         /\ \E k \in Draws(normalizedType)[pattern.conflictIdx],
                j \in Draws(normalizedType)[next] :
              indices' = [indices EXCEPT ![pattern.conflictIdx] = k, ![next] = j]
  /\ redrawn' = TRUE
  /\ UNCHANGED <<pc, type, normalizedType, names, gender, i, name, attempts, patternIdx,
                 random, result, arg, res, drafts, awaiting,
                 value, items>>

(* the body of the conflict loop with the new draw not stored *)
RedrawNotStored ==
  /\ pc = "resolve"
  /\ LET pattern == PATTERNS(normalizedType)[patternIdx]
     IN  /\ ~ConflictThrows(Characters(normalizedType), pattern, indices)
         /\ Conflict(Characters(normalizedType), pattern, indices)
  /\ redrawn' = TRUE
  /\ UNCHANGED <<pc, type, normalizedType, names, gender, i, name, attempts, patternIdx,
                 indices, random, result, arg, res, drafts, awaiting,
                 value, items>>

(* the body of the conflict loop: the conflict slice is drawn again *)
Redraw ==
  /\ pc = "resolve"
  /\ LET pattern == PATTERNS(normalizedType)[patternIdx]
     IN  /\ ~ConflictThrows(Characters(normalizedType), pattern, indices)
         /\ Conflict(Characters(normalizedType), pattern, indices)
         /\ \E k \in Draws(normalizedType)[pattern.conflictIdx] :
              indices' = [indices EXCEPT ![pattern.conflictIdx] = k]
  /\ redrawn' = TRUE
  /\ UNCHANGED <<pc, type, normalizedType, names, gender, i, name, attempts, patternIdx,
                 random, result, arg, res, drafts, awaiting,
                 value, items>>

(* the while condition of the conflict loop throws: the TypeError leaves
   generate and the generator, no name is returned *)
ConflictError ==
  /\ pc = "resolve"
  /\ ConflictThrows(Characters(normalizedType), PATTERNS(normalizedType)[patternIdx],
                    indices)
  /\ result' = [NoResult EXCEPT !.kind = "error", !.text = "TypeError"]
  /\ pc' = "failed"
  /\ names' = NoNames
  /\ gender' = ""
  /\ i' = 0
  /\ NoLocals
  /\ UNCHANGED <<type, normalizedType, arg, res, awaiting,
                 value, items>>

(* the conflict slice drawn again once at most (if in place of while): the
   name is built after one re-draw whatever it gave *)
CheckAfterRedraw ==
  /\ pc = "resolve"
  /\ LET pattern == PATTERNS(normalizedType)[patternIdx]
     IN  /\ ~ConflictThrows(Characters(normalizedType), pattern, indices)
         /\ redrawn \/ ~Conflict(Characters(normalizedType), pattern, indices)
         /\ name' = Assemble(Characters(normalizedType), pattern, indices)
  /\ IF SensitivityCheck(name')
       THEN pc' = "ret" /\ attempts' = attempts
       ELSE pc' = "loop" /\ attempts' = attempts + 1
  /\ UNCHANGED <<type, normalizedType, names, gender, i, patternIdx, indices, redrawn,
                 random, result, arg, res, drafts, awaiting,
                 value, items>>

(* the sensitivity check's failing branch without attempts++ *)
CheckUncounted ==
  /\ pc = "resolve"
  /\ LET pattern == PATTERNS(normalizedType)[patternIdx]
     IN  /\ ~ConflictThrows(Characters(normalizedType), pattern, indices)
         /\ ~Conflict(Characters(normalizedType), pattern, indices)
         /\ name' = Assemble(Characters(normalizedType), pattern, indices)
  /\ IF SensitivityCheck(name')
       THEN pc' = "ret" /\ attempts' = attempts
       ELSE pc' = "loop" /\ attempts' = attempts
  /\ UNCHANGED <<type, normalizedType, names, gender, i, patternIdx, indices, redrawn,
                 random, result, arg, res, drafts, awaiting,
                 value, items>>

(* the conflict loop is left: the name is built and checked; break, or
   attempts++ and the next iteration *)
Check ==
  /\ pc = "resolve"
  /\ LET pattern == PATTERNS(normalizedType)[patternIdx]
     IN  /\ ~ConflictThrows(Characters(normalizedType), pattern, indices)
         /\ ~Conflict(Characters(normalizedType), pattern, indices)
         /\ name' = Assemble(Characters(normalizedType), pattern, indices)
  /\ IF SensitivityCheck(name')
       THEN pc' = "ret" /\ attempts' = attempts
       ELSE pc' = "loop" /\ attempts' = attempts + 1
  /\ UNCHANGED <<type, normalizedType, names, gender, i, patternIdx, indices, redrawn,
                 random, result, arg, res, drafts, awaiting,
                 value, items>>

(* names...[i] = the returned name; i++ *)
Return ==
  /\ pc = "ret"
  /\ names' = IF names.kind = "array"
                THEN [names EXCEPT !.val = ArrSet(@, i, name)]
                ELSE [names EXCEPT !.val[gender] = ArrSet(@, i, name)]
  /\ i' = i + 1
  /\ pc' = "batch"
  /\ NoLocals
  /\ UNCHANGED <<type, normalizedType, gender, result, arg, res, awaiting,
                 value, items>>

(* the generator's last for loop is over: return Response.json(names) *)
Finish ==
  /\ pc = "batch"
  /\ ~(i < COUNT)
  /\ normalizedType = ANGEL => gender = "female"
  /\ pc' = "respond"
  /\ UNCHANGED <<type, normalizedType, names, gender, i, name, attempts, patternIdx,
                 indices, redrawn, random, result, arg, res, drafts, awaiting,
                 value, items>>

(* await response.json() gave an object that is not an array: return names *)
RespondNames ==
  /\ pc = "respond"
  /\ ~(names.kind = "array")
  /\ result' = [NoResult EXCEPT !.kind = "ok", !.value = names.val]
  /\ pc' = "returned"
  /\ names' = NoNames
  /\ UNCHANGED <<type, normalizedType, gender, i, name, attempts, patternIdx, indices,
                 redrawn, random, arg, res, drafts, awaiting,
                 value, items>>

(* await response.json() gave an array: the validation throws, the catch
   rethrows the Error *)
RespondInvalid ==
  /\ pc = "respond"
  /\ names.kind = "array"
  /\ result' = [NoResult EXCEPT !.kind = "error",
                                !.text = "Invalid response format from generator"]
  /\ pc' = "thrown"
  /\ names' = NoNames
  /\ UNCHANGED <<type, normalizedType, gender, i, name, attempts, patternIdx, indices,
                 redrawn, random, arg, res, drafts, awaiting,
                 value, items>>

(***************************************************************************)
(* AnansiNames: generate                                                   *)
(***************************************************************************)

(* the split point without the cap at 5 *)
SplitPointUncapped(raw, len) ==
  LET a == IF raw = 0 THEN 1 ELSE raw
  IN  IF a < 3 /\ len > 4 THEN 3 ELSE a

(* the split point drawn for a donor word of the given length, after the
   three adjustments: 0 becomes 1; below 3 becomes 3 for a word longer
   than 4; above 5 becomes 5 *)
SplitPoint(raw, len) ==
  LET a == IF raw = 0 THEN 1 ELSE raw
      b == IF a < 3 /\ len > 4 THEN 3 ELSE a
  IN  IF b > 5 THEN 5 ELSE b

(* the array random of one iteration, from the four draws *)
Random(firstNameIdx, secondNameIdx, raw1, raw3) ==
  LET r1 == SplitPoint(raw1, Len(AnansiCharacters[0][firstNameIdx]))
      r3 == SplitPoint(raw3, Len(AnansiCharacters[0][secondNameIdx]))
  IN  Arr(<<firstNameIdx, r1, secondNameIdx, IF r1 = 1 /\ r3 = 1 THEN 3 ELSE r3>>)

(* characters[0][firstNameIdx].length < 4 || characters[0][secondNameIdx].length < 4 *)
TooShort(firstNameIdx, secondNameIdx) ==
  \/ Len(AnansiCharacters[0][firstNameIdx]) < 4
  \/ Len(AnansiCharacters[0][secondNameIdx]) < 4

Start(rnd) == Slice(AnansiCharacters[0][rnd[0]], 0, rnd[1])

End(rnd) == SliceFrom(AnansiCharacters[0][rnd[2]], rnd[3])

(* characters[1].includes(c) *)
IsVowel(c) == Includes(AnansiCharacters[1], c)

(* neither boundary character is a vowel: a connecting vowel is drawn *)
NeedsVowel(rnd) ==
  /\ ~IsVowel(SliceLast(Start(rnd)))
  /\ ~IsVowel(Slice(End(rnd), 0, 1))

(* the vowel connection logic dropping one character of the suffix in both
   branches of the two-vowel case *)
ConnectDropsOne(rnd, vowelIdx) ==
  LET start == Start(rnd)
      end == End(rnd)
      lastChar == SliceLast(start)
      firstChar == Slice(end, 0, 1)
  IN  IF IsVowel(lastChar) /\ IsVowel(firstChar)
        THEN start \o SliceFrom(end, 1)
        ELSE IF IsVowel(lastChar) \/ IsVowel(firstChar)
               THEN start \o end
               ELSE start \o AnansiCharacters[1][vowelIdx] \o end

(* the vowel connection logic joining two consonants without a vowel *)
ConnectJoinsBare(rnd, vowelIdx) ==
  LET start == Start(rnd)
      end == End(rnd)
      lastChar == SliceLast(start)
      firstChar == Slice(end, 0, 1)
  IN  IF IsVowel(lastChar) /\ IsVowel(firstChar)
        THEN IF IsVowel(Slice(end, 1, 2))
               THEN start \o SliceFrom(end, 2)
               ELSE start \o SliceFrom(end, 1)
        ELSE start \o end

(* the vowel connection logic: the name of one iteration *)
Connect(rnd, vowelIdx) ==
  LET start == Start(rnd)
      end == End(rnd)
      lastChar == SliceLast(start)
      firstChar == Slice(end, 0, 1)
  IN  IF IsVowel(lastChar) /\ IsVowel(firstChar)
        THEN IF IsVowel(Slice(end, 1, 2))
               THEN start \o SliceFrom(end, 2)
               ELSE start \o SliceFrom(end, 1)
        ELSE IF IsVowel(lastChar) \/ IsVowel(firstChar)
               THEN start \o end
               ELSE start \o AnansiCharacters[1][vowelIdx] \o end

(* the short-word branch with continue alone, attempts left as it is *)
AnansiShortUncounted ==
  /\ pc = "loop"
  /\ normalizedType = ANANSI
  /\ attempts < MAX_ATTEMPTS
  /\ \E firstNameIdx \in AnansiDraws, secondNameIdx \in AnansiDraws :
       TooShort(firstNameIdx, secondNameIdx)
  /\ drafts' = drafts + 1
  /\ UNCHANGED <<pc, type, normalizedType, names, gender, i, name, attempts, patternIdx,
                 indices, redrawn, random, result, arg, res, awaiting,
                 value, items>>

(* anansi: one of the two drawn donor words is too short: attempts++; continue *)
AnansiShort ==
  /\ pc = "loop"
  /\ normalizedType = ANANSI
  /\ attempts < MAX_ATTEMPTS
  /\ \E firstNameIdx \in AnansiDraws, secondNameIdx \in AnansiDraws :
       TooShort(firstNameIdx, secondNameIdx)
  /\ attempts' = attempts + 1
  /\ drafts' = drafts + 1
  /\ UNCHANGED <<pc, type, normalizedType, names, gender, i, name, patternIdx, indices,
                 redrawn, random, result, arg, res, awaiting,
                 value, items>>

(* anansi: both donor words are long enough: the split points are drawn *)
AnansiSplit ==
  /\ pc = "loop"
  /\ normalizedType = ANANSI
  /\ attempts < MAX_ATTEMPTS
  /\ \E firstNameIdx \in AnansiDraws, secondNameIdx \in AnansiDraws :
       /\ ~TooShort(firstNameIdx, secondNameIdx)
       /\ \E raw1 \in 0..(Len(AnansiCharacters[0][firstNameIdx]) - 1),
             raw3 \in 0..(Len(AnansiCharacters[0][secondNameIdx]) - 1) :
            random' = Random(firstNameIdx, secondNameIdx, raw1, raw3)
  /\ pc' = "join"
  /\ drafts' = drafts + 1
  /\ UNCHANGED <<type, normalizedType, names, gender, i, name, attempts, patternIdx,
                 indices, redrawn, result, arg, res, awaiting,
                 value, items>>

(* anansi: the parts are joined and the name is checked; break, or
   attempts++ and the next iteration *)
AnansiJoin ==
  /\ pc = "join"
  /\ \E vowelIdx \in (IF NeedsVowel(random) THEN VowelDraws ELSE {0}) :
       name' = Connect(random, vowelIdx)
  /\ IF SensitivityCheck(name')
       THEN pc' = "ret" /\ attempts' = attempts
       ELSE pc' = "loop" /\ attempts' = attempts + 1
  /\ UNCHANGED <<type, normalizedType, names, gender, i, patternIdx, indices, redrawn,
                 random, result, arg, res, drafts, awaiting,
                 value, items>>

(***************************************************************************)
(* AngelNames                                                              *)
(***************************************************************************)

(* the switch with the male and the female case exchanged *)
BankSwapped(g) == IF g = "male" THEN 2 ELSE IF g = "female" THEN 0 ELSE 1

(* the switch of generate(gender): the index into list *)
Bank(g) == IF g = "male" THEN 0 ELSE IF g = "female" THEN 2 ELSE 1

(* generate(gender) when the draw gives number *)
AngelGenerate(g, number) == AngelList[Bank(g)][number]

(* names[gender][i] = generate(gender); i++ *)
AngelPick ==
  /\ pc = "batch"
  /\ normalizedType = ANGEL
  /\ i < COUNT
  /\ \E number \in AngelDraws[Bank(gender)] :
       names' = [names EXCEPT !.val[gender] = ArrSet(@, i, AngelGenerate(gender, number))]
  /\ i' = i + 1
  /\ UNCHANGED <<pc, type, normalizedType, gender, name, attempts, patternIdx, indices,
                 redrawn, random, result, arg, res, drafts, awaiting,
                 value, items>>

(* the neutral loop is followed by the male loop, the male loop by the
   female loop *)
AngelNextLoop ==
  /\ pc = "batch"
  /\ normalizedType = ANGEL
  /\ ~(i < COUNT)
  /\ gender # "female"
  /\ gender' = IF gender = "neutral" THEN "male" ELSE "female"
  /\ i' = 0
  /\ UNCHANGED <<pc, type, normalizedType, names, name, attempts, patternIdx, indices,
                 redrawn, random, result, arg, res, drafts, awaiting,
                 value, items>>

(***************************************************************************)
(* Direct calls of SensitivityCheck, of the angel generate and of one      *)
(* iteration of the anansi generate                                        *)
(***************************************************************************)

(* the longest word SensitivityCheck is called with *)
MaxWordLen == 4

Alphabet == {"a", "s", "S", "e", "x"}

CheckedWords == UNION {[1..n -> Alphabet] : n \in 0..MaxWordLen}

(* the keys the angel generate is called with *)
GenderKeys == {"male", "female", "neutral", "other", ""}

(* the donor words of the direct calls: "aba", "baah", "twum", "kumi",
   "osam", "baaba", "kouassi", "quainoo", "darko", "cofie" and entry 0, whose
   first character is outside ASCII *)
UnitDonors == {5, 145, 405, 270, 361, 143, 265, 375, 189, 177, 0}

UnitArgs ==
  {[fn |-> "SensitivityCheck", word |-> w] : w \in CheckedWords}
  \cup {[fn |-> "generate", gender |-> g, number |-> n] :
          g \in GenderKeys, n \in AngelDraws[0] \cup AngelDraws[1] \cup AngelDraws[2]}
  \cup UNION {{[fn |-> "iteration", firstNameIdx |-> a, secondNameIdx |-> b,
                raw1 |-> r1, raw3 |-> r3, vowelIdx |-> v] :
                 r1 \in 0..(Len(AnansiCharacters[0][a]) - 1),
                 r3 \in 0..(Len(AnansiCharacters[0][b]) - 1),
                 v \in VowelDraws} : a \in UnitDonors, b \in UnitDonors}

UnitInit ==
  /\ pc = "call"
  /\ arg \in UnitArgs
  /\ res = NoRes
  /\ type = <<>>
  /\ normalizedType = <<>>
  /\ names = NoNames
  /\ gender = ""
  /\ i = 0
  /\ name = <<>>
  /\ attempts = 0
  /\ patternIdx = -1
  /\ indices = <<>>
  /\ redrawn = FALSE
  /\ random = <<>>
  /\ result = NoResult
  /\ drafts = 0
  /\ awaiting = <<>>
  /\ value = <<>>
  /\ items = [neutral |-> <<>>]

UnitFrame ==
  UNCHANGED <<type, normalizedType, names, gender, i, name, attempts, patternIdx,
              indices, redrawn, random, result, arg, drafts, awaiting,
                 value, items>>

CallSensitivityCheck ==
  /\ pc = "call"
  /\ arg.fn = "SensitivityCheck"
  /\ res' = [fn |-> "SensitivityCheck", value |-> SensitivityCheck(arg.word)]
  /\ pc' = "called"
  /\ UnitFrame

CallAngelGenerate ==
  /\ pc = "call"
  /\ arg.fn = "generate"
  /\ arg.number \in AngelDraws[Bank(arg.gender)]
  /\ res' = [fn |-> "generate", value |-> AngelGenerate(arg.gender, arg.number)]
  /\ pc' = "called"
  /\ UnitFrame

(* one iteration of the anansi loop on the given draws *)
CallIteration ==
  /\ pc = "call"
  /\ arg.fn = "iteration"
  /\ res' = IF TooShort(arg.firstNameIdx, arg.secondNameIdx)
              THEN [fn |-> "iteration", short |-> TRUE, random |-> <<>>, name |-> <<>>,
                    safe |-> FALSE]
              ELSE LET rnd == Random(arg.firstNameIdx, arg.secondNameIdx, arg.raw1, arg.raw3)
                       n == Connect(rnd, arg.vowelIdx)
                   IN  [fn |-> "iteration", short |-> FALSE, random |-> rnd, name |-> n,
                        safe |-> SensitivityCheck(n)]
  /\ pc' = "called"
  /\ UnitFrame

(***************************************************************************)
(* A pattern generator called on one of the two small tables               *)
(***************************************************************************)

(* the generator function is entered: names = { neutral: [] } *)
TableInit ==
  /\ pc = "batch"
  /\ arg \in {[fn |-> "Names", table |-> t] : t \in {SCENARIO_A, MALFORMED}}
  /\ res = NoRes
  /\ type = <<>>
  /\ normalizedType = arg.table
  /\ names = InitialNames(arg.table)
  /\ gender = "neutral"
  /\ i = 0
  /\ name = <<>>
  /\ attempts = 0
  /\ patternIdx = -1
  /\ indices = <<>>
  /\ redrawn = FALSE
  /\ random = <<>>
  /\ result = NoResult
  /\ drafts = 0
  /\ awaiting = <<>>
  /\ value = <<>>
  /\ items = [neutral |-> <<>>]

(***************************************************************************)
(* Specification                                                           *)
(***************************************************************************)

Init == ProgramInit \/ UnitInit \/ TableInit

Next ==
  \/ RequestUnsupported
  \/ RequestInherited
  \/ RequestGenerator
  \/ CallGenerate
  \/ Exhausted
  \/ Draft
  \/ Redraw
  \/ Check
  \/ ConflictError
  \/ AnansiShort
  \/ AnansiSplit
  \/ AnansiJoin
  \/ Return
  \/ AngelPick
  \/ AngelNextLoop
  \/ Finish
  \/ RespondNames
  \/ RespondInvalid
  \/ CallSensitivityCheck
  \/ CallAngelGenerate
  \/ CallIteration

Spec == Init /\ [][Next]_vars

(* a re-draw of the conflict slice that ends the conflict *)
RedrawClear ==
  /\ Redraw
  /\ ~Conflict(Characters(normalizedType), PATTERNS(normalizedType)[patternIdx], indices')

(* a generator has filled in its empty names and is about to call generate()
   for the first name of the batch *)
GenerateInit ==
  /\ pc = "batch"
  /\ type \in {ALIEN, AMAZON, ANANSI}
  /\ normalizedType = type
  /\ names = InitialNames(type)
  /\ gender = (IF type = AMAZON THEN "" ELSE "neutral")
  /\ i = 0
  /\ name = <<>>
  /\ attempts = 0
  /\ patternIdx = -1
  /\ indices = <<>>
  /\ redrawn = FALSE
  /\ random = <<>>
  /\ result = NoResult
  /\ arg = NoArg
  /\ res = NoRes
  /\ drafts = 0
  /\ awaiting = <<>>
  /\ value = <<>>
  /\ items = [neutral |-> <<>>]

(* the steps of that call, up to its return *)
GenerateNext ==
  \/ CallGenerate
  \/ Draft
  \/ Redraw
  \/ Check
  \/ Exhausted
  \/ AnansiShort
  \/ AnansiSplit
  \/ AnansiJoin

(* generate keeps running, and the random source is fair: a candidate that
   every re-draw can give is given by some re-draw *)
GenerateSpec ==
  /\ GenerateInit
  /\ [][GenerateNext]_vars
  /\ WF_vars(CallGenerate) /\ WF_vars(Draft) /\ WF_vars(Check) /\ WF_vars(Exhausted)
  /\ WF_vars(RedrawClear)

(* a running generate takes its next step: the code is synchronous and never
   suspends inside the conflict loop *)
FairSpec == Spec /\ WF_vars(Redraw) /\ WF_vars(Check)

(***************************************************************************)
(* Calls of generateNames in flight together.  Each call runs without      *)
(* interruption up to await response.json(), where it is suspended with    *)
(* its response; other calls run until the continuation is resumed.        *)
(***************************************************************************)
(* the callers whose calls are in flight together *)
Callers == {"first", "second"}

ConcTypes == {ALIEN, AMAZON}

(* s without its element k *)
Remove(s, k) == [j \in 1..(Len(s) - 1) |-> IF j < k THEN s[j] ELSE s[j + 1]]

(* the least element of a set of numbers *)
Least(S) == CHOOSE x \in S : \A y \in S : x <= y

(* generateNames(t) is called while earlier calls are suspended *)
Invoke ==
  /\ Len(awaiting) < Cardinality(Callers)
  /\ RequestGenerator
  /\ type' \in ConcTypes

(* the head of one iteration, where the draws explored are those of the
   theme's last pattern *)
ConcDraft ==
  /\ Draft
  /\ patternIdx' = PATTERN_COUNT(normalizedType) - 1
  /\ \A s \in DOMAIN indices' :
       (IndexOf(PATTERNS(normalizedType)[patternIdx'].indices, s) = -1)
         => indices'[s] = Least(Draws(normalizedType)[s])

(* await response.json(): the call is suspended, its type and response stay
   with it, and the thread is free *)
Suspend ==
  /\ pc = "respond"
  /\ awaiting' = Append(awaiting, [type |-> type, names |-> names])
  /\ pc' = "idle"
  /\ type' = <<>>
  /\ normalizedType' = <<>>
  /\ names' = NoNames
  /\ gender' = ""
  /\ i' = 0
  /\ UNCHANGED <<name, attempts, patternIdx, indices, redrawn, random, result, arg, res,
                 drafts,
                 value, items>>

(* how the continuation of a suspended call settles: the validation throws
   for an array and the names are returned otherwise *)
Settled(call) ==
  IF call.names.kind = "array"
    THEN [NoResult EXCEPT !.kind = "error",
                          !.text = "Invalid response format from generator"]
    ELSE [NoResult EXCEPT !.kind = "ok", !.value = call.names.val]

(* a continuation that reads the response produced last *)
SettleLatest(k) ==
  /\ result' = Settled(awaiting[Len(awaiting)])
  /\ pc' = IF awaiting[Len(awaiting)].names.kind = "array" THEN "thrown" ELSE "returned"
  /\ type' = awaiting[k].type
  /\ normalizedType' = ToLowerCase(awaiting[k].type)
  /\ awaiting' = Remove(awaiting, k)
  /\ UNCHANGED <<names, gender, i, name, attempts, patternIdx, indices, redrawn, random,
                 arg, res, drafts,
                 value, items>>

(* the continuation of the suspended call k: const names = await
   response.json(), the validation, return names *)
Settle(k) ==
  /\ result' = Settled(awaiting[k])
  /\ pc' = IF awaiting[k].names.kind = "array" THEN "thrown" ELSE "returned"
  /\ type' = awaiting[k].type
  /\ normalizedType' = ToLowerCase(awaiting[k].type)
  /\ awaiting' = Remove(awaiting, k)
  /\ UNCHANGED <<names, gender, i, name, attempts, patternIdx, indices, redrawn, random,
                 arg, res, drafts,
                 value, items>>

(* a suspended call is resumed when no call is running *)
Resume ==
  /\ pc \in {"idle", "returned", "thrown"}
  /\ \E k \in 1..Len(awaiting) : Settle(k)

ConcNext ==
  \/ Invoke
  \/ CallGenerate
  \/ Exhausted
  \/ ConcDraft
  \/ Redraw
  \/ Check
  \/ Return
  \/ Finish
  \/ Suspend
  \/ Resume

ConcSpec == ProgramInit /\ [][ConcNext]_vars

(***************************************************************************)
(* The component NameGenerator: GetNames is called by the selection of a   *)
(* category and by the regenerate button; it stores the key, awaits        *)
(* generateNames and stores the names, or resets both states in its catch. *)
(***************************************************************************)

(* the keys of the categories selected: "Alien", "Angel" and "Bandit",
   slugified *)
Keys == {ALIEN, ANGEL, <<"b","a","n","d","i","t">>}

(* useState({ neutral: [] }) and the value SetItems is given in the catch *)
NoItems == [neutral |-> <<>>]

(* GetNames(key), called by onSelectionChange with the key selected and by
   the button's onPress with the state value (one of the keys, as the button
   is rendered while items.neutral is not empty):
   if (!value) return; SetValue(String(value)) *)
GetNames ==
  /\ pc = "idle"
  /\ Len(awaiting) < Cardinality(Callers)
  /\ \E key \in Keys : value' = key
  /\ pc' = "selected"
  /\ UNCHANGED <<type, normalizedType, names, gender, i, name, attempts, patternIdx,
                 indices, redrawn, random, result, arg, res, drafts, awaiting, items>>

(* await generateNames(String(value)): the call runs up to its throw or to
   its await *)
CallGenerateNames ==
  /\ pc = "selected"
  /\ RequestGenerator \/ RequestUnsupported
  /\ type' = value

(* the angel generator's draw, where the draws explored are the least entry
   of each list *)
FirstAngelPick ==
  /\ AngelPick
  /\ names'.val[gender][i] = AngelGenerate(gender, Least(AngelDraws[Bank(gender)]))

(* the promise of a suspended call of generateNames settles *)
Settles ==
  /\ pc = "idle"
  /\ Resume

(* const names = await generateNames(...) gave the names: SetItems(names) *)
ShowNames ==
  /\ pc = "returned"
  /\ items' = result.value
  /\ pc' = "idle"
  /\ result' = NoResult
  /\ type' = <<>>
  /\ normalizedType' = <<>>
  /\ UNCHANGED <<names, gender, i, name, attempts, patternIdx, indices, redrawn,
                 random, arg, res, drafts, awaiting, value>>

(* the await threw: SetItems({ neutral: [] }); SetValue('') *)
ShowNothing ==
  /\ pc = "thrown"
  /\ items' = NoItems
  /\ value' = <<>>
  /\ pc' = "idle"
  /\ result' = NoResult
  /\ type' = <<>>
  /\ normalizedType' = <<>>
  /\ UNCHANGED <<names, gender, i, name, attempts, patternIdx, indices, redrawn,
                 random, arg, res, drafts, awaiting>>

UiNext ==
  \/ GetNames
  \/ CallGenerateNames
  \/ CallGenerate
  \/ Exhausted
  \/ ConcDraft
  \/ Redraw
  \/ Check
  \/ Return
  \/ FirstAngelPick
  \/ AngelNextLoop
  \/ Finish
  \/ Suspend
  \/ Settles
  \/ ShowNames
  \/ ShowNothing

UiSpec == ProgramInit /\ [][UiNext]_vars

(***************************************************************************)
(* Properties                                                              *)
(***************************************************************************)

(* the elements of an array *)
Elements(a) == {a[k] : k \in DOMAIN a}

Registered(t) == \E k \in DOMAIN generators : generators[k] = t

OnBlocklist(n) == \E k \in DOMAIN Words : Words[k] = ToLowerCase(n)

(* C1: for every registered theme (alien, amazon, anansi, angel) a finished
   call of generateNames has returned a result whose "neutral" list has
   exactly COUNT entries and whose "male" and "female" lists, when present,
   have exactly COUNT entries *)
C1_BatchComplete ==
  (pc \in {"returned", "thrown"} /\ normalizedType \in {ALIEN, AMAZON, ANANSI, ANGEL})
    => /\ result.kind = "ok"
       /\ "neutral" \in DOMAIN result.value
       /\ \A g \in DOMAIN result.value : Length(result.value[g]) = COUNT

(* C2: a name with which generate leaves its loop through the accept branch
   (before attempts reaches MAX_ATTEMPTS) is, lowercased, no blocklist entry *)
C2_AcceptedNotBlocked ==
  (pc = "ret" /\ normalizedType \in {ALIEN, AMAZON, ANANSI} /\ attempts < MAX_ATTEMPTS)
    => \A k \in DOMAIN Words : Words[k] # ToLowerCase(name)

C2_Witness ==
  /\ pc = "ret"
  /\ normalizedType = ALIEN
  /\ attempts > 0
  /\ attempts < MAX_ATTEMPTS

(* C3: when MAX_ATTEMPTS drafts of one name have failed the filter, the next
   step of generate leaves the loop and returns the last draft, which is on
   the blocklist *)
C3_ExhaustionReturnsLastDraft ==
  [][(pc = "loop" /\ normalizedType \in {ALIEN, AMAZON} /\ ~(attempts < MAX_ATTEMPTS))
       => /\ pc' = "ret"
          /\ attempts' = MAX_ATTEMPTS
          /\ name' = Assemble(Characters(normalizedType),
                              PATTERNS(normalizedType)[patternIdx], indices)
          /\ OnBlocklist(name')]_vars

C3_Witness ==
  /\ pc = "ret"
  /\ normalizedType = ALIEN
  /\ attempts = MAX_ATTEMPTS
  /\ OnBlocklist(name)

(* C4: in every name a pattern generator has assembled, the fragment of the
   conflict slice differs from the fragment of the slice before it and from
   the fragment of the slice after it in the pattern's splice order *)
C4_ConflictFree ==
  (pc \in {"ret", "loop"} /\ normalizedType \in {ALIEN, AMAZON} /\ patternIdx # -1)
    => LET pattern == PATTERNS(normalizedType)[patternIdx]
           frag(k) == Characters(normalizedType)[pattern.indices[k]][indices[pattern.indices[k]]]
       IN  \A k \in DOMAIN pattern.indices :
             pattern.indices[k] = pattern.conflictIdx
               => /\ (k - 1) \in DOMAIN pattern.indices => frag(k - 1) # frag(k)
                  /\ (k + 1) \in DOMAIN pattern.indices => frag(k + 1) # frag(k)

C4_Witness ==
  /\ pc = "ret"
  /\ normalizedType \in {ALIEN, AMAZON}
  /\ redrawn

(* C5: a call whose lowercased argument is no registered key has thrown the
   error that names the argument and lists the registered keys, and no
   generator has run *)
C5_UnknownTheme ==
  (pc # "idle" /\ arg = NoArg /\ ~Registered(ToLowerCase(type)))
    => /\ pc = "thrown"
       /\ result.kind = "error"
       /\ result.type = type
       /\ result.available = generators
       /\ names = NoNames

(* C6: the output of a registered generator is a mapping whose keys are
   among "neutral", "male", "female" and include "neutral" *)
C6_OutputShape ==
  pc = "respond"
    => /\ names.kind = "object"
       /\ DOMAIN names.val \subseteq {"neutral", "male", "female"}
       /\ "neutral" \in DOMAIN names.val

(* the characters k, k+1, k+2 of n that include the last character of the
   prefix (position b) and at least one character after it are not all in
   the vowel slice *)
NoHiatus(n, b) ==
  \A k \in 1..(Len(n) - 2) :
    (k <= b /\ b < k + 2)
      => ~(\A j \in k..(k + 2) : \E v \in DOMAIN AnansiCharacters[1] :
                                   AnansiCharacters[1][v] = <<n[j]>>)

(* C7: no accepted anansi name has three consecutive vowels across the
   boundary between the prefix fragment and what follows it *)
C7_Hiatus ==
  /\ (pc = "ret" /\ normalizedType = ANANSI /\ attempts < MAX_ATTEMPTS)
       => NoHiatus(name, random[1])
  /\ (pc = "called" /\ res.fn = "iteration" /\ ~res.short /\ res.safe)
       => NoHiatus(res.name, res.random[1])

C7_Witness ==
  /\ pc = "called"
  /\ res.fn = "iteration"
  /\ ~res.short
  /\ res.safe
  /\ IsVowel(SliceLast(Start(res.random)))
  /\ IsVowel(Slice(End(res.random), 0, 1))
  /\ IsVowel(Slice(End(res.random), 1, 2))

(* C8: generate(genderKey) of the angel generator returns an element of the
   male list for "male", of the female list for "female" and of the neutral
   list for any other key; every name of the male, female and neutral list of
   the angel names is an element of the fixed list of that key *)
C8_GenderBank ==
  /\ (pc = "called" /\ res.fn = "generate")
       => /\ arg.gender = "male" => res.value \in Elements(AngelList[0])
          /\ arg.gender = "female" => res.value \in Elements(AngelList[2])
          /\ arg.gender \notin {"male", "female"} => res.value \in Elements(AngelList[1])
  /\ (normalizedType = ANGEL /\ names.kind = "object")
       => /\ Elements(names.val.male) \subseteq Elements(AngelList[0])
          /\ Elements(names.val.female) \subseteq Elements(AngelList[2])
          /\ Elements(names.val.neutral) \subseteq Elements(AngelList[1])
  /\ (normalizedType = ANGEL /\ pc = "returned")
       => /\ Elements(result.value.male) \subseteq Elements(AngelList[0])
          /\ Elements(result.value.female) \subseteq Elements(AngelList[2])
          /\ Elements(result.value.neutral) \subseteq Elements(AngelList[1])

C8_Witness ==
  /\ pc = "returned"
  /\ normalizedType = ANGEL
  /\ \E k \in DOMAIN result.value.male :
       result.value.male[k] \notin Elements(AngelList[1])
  /\ \E k \in DOMAIN result.value.female :
       result.value.female[k] \notin Elements(AngelList[1])

(* the letters of the alphabet of the direct calls that differ in case only *)
CasePairs == {<<"S", "s">>}

(* w and e are equal up to the case of their letters *)
SameIgnoringCase(w, e) ==
  /\ Len(w) = Len(e)
  /\ \A j \in 1..Len(w) : w[j] = e[j] \/ <<w[j], e[j]>> \in CasePairs

(* e occurs in w and is shorter than w *)
ProperSubstring(e, w) ==
  /\ Len(e) < Len(w)
  /\ \E from \in 0..(Len(w) - Len(e)) : Slice(w, from, from + Len(e)) = e

(* C9: SensitivityCheck(w) is false exactly when w equals a blocklist entry
   up to case; a word that only contains an entry is reported safe *)
C9_Filter ==
  (pc = "called" /\ res.fn = "SensitivityCheck")
    => /\ res.value = FALSE
            <=> \E k \in DOMAIN Words : SameIgnoringCase(arg.word, Words[k])
       /\ ((\E k \in DOMAIN Words : ProperSubstring(Words[k], arg.word))
            /\ ~(\E k \in DOMAIN Words : SameIgnoringCase(arg.word, Words[k])))
            => res.value = TRUE

C9_Witness ==
  /\ pc = "called"
  /\ res.fn = "SensitivityCheck"
  /\ res.value = TRUE
  /\ arg.word = <<"a", "S", "s", "x">>

(* C10: every name of a batch of the alien, amazon and anansi generators
   satisfies SensitivityCheck *)
C10_BatchFiltered ==
  (normalizedType \in {ALIEN, AMAZON, ANANSI} /\ names.kind # "none")
    => \A n \in (IF names.kind = "array" THEN Elements(names.val)
                 ELSE Elements(names.val.neutral)) : SensitivityCheck(n)

(* C11: an invocation of the alien, amazon or anansi generator begins at most
   MAX_ATTEMPTS iterations of the retry loop for each of its COUNT names (one
   gender key), and a draft attempt, once begun, comes to its end: the
   conflict loop inside it does not go on for ever *)
C11_WorstCase ==
  /\ []((names.kind # "none" /\ normalizedType \in {ALIEN, AMAZON, ANANSI})
          => i * MAX_ATTEMPTS + drafts <= MAX_ATTEMPTS * COUNT)
  /\ ((pc = "resolve" /\ normalizedType \in {ALIEN, AMAZON}) ~> (pc # "resolve"))

(* C11 as amended: the retry loop of generate begins at most MAX_ATTEMPTS
   iterations in one call, and so at most MAX_ATTEMPTS * COUNT in one
   invocation; no statement is made about the conflict loop *)
C11_DraftBound ==
  (names.kind # "none" /\ normalizedType \in {ALIEN, AMAZON, ANANSI})
    => /\ drafts <= MAX_ATTEMPTS
       /\ i <= COUNT
       /\ pc \in {"loop", "resolve", "join", "ret"} => i < COUNT
       /\ i * MAX_ATTEMPTS + drafts <= MAX_ATTEMPTS * COUNT

C11_Witness ==
  /\ pc = "ret"
  /\ normalizedType = ANANSI
  /\ drafts = MAX_ATTEMPTS
  /\ i = COUNT - 1

(* the lowercase form of each argument generateNames is called with *)
TypeLowered(t) ==
  IF t = <<"A","l","i","e","n">> THEN ALIEN
  ELSE IF t = <<"A","m","a","z","o","n">> THEN AMAZON
  ELSE IF t = <<"A","N","G","E","L">> THEN ANGEL
  ELSE IF t = <<"D","w","a","r","f">> THEN <<"d","w","a","r","f">>
  ELSE IF t = <<"C","o","n","s","t","r","u","c","t","o","r">>
    THEN <<"c","o","n","s","t","r","u","c","t","o","r">>
  ELSE t

(* C14: a call of generateNames(s) looks up the lowercase form of s: it has
   the unsupported-type outcome exactly when the lowercase form has no entry,
   and otherwise runs under the key of the lowercase form, so s and its
   lowercase form are treated alike *)
C14_CaseInsensitive ==
  (pc # "idle" /\ arg = NoArg)
    => LET low == TypeLowered(type)
       IN  /\ normalizedType = low
           /\ (pc = "thrown" /\ result.kind = "error" /\ result.available = generators)
                 <=> ~(Registered(low) \/ low \in ObjectPrototypeKeys)
           /\ Registered(low) => (names.kind # "none" \/ pc \in {"returned", "thrown"})
           /\ names.kind # "none" => names.kind = InitialNames(low).kind

C14_Witness ==
  /\ pc = "returned"
  /\ type # normalizedType
  /\ result.kind = "ok"

(* a step of generate in which a drafted candidate fails the content filter *)
FilterFailed ==
  /\ pc \in {"resolve", "join"}
  /\ pc' # pc
  /\ ~(\A k \in DOMAIN Words : Words[k] # ToLowerCase(name'))

(* a step of the anansi generate that discards a draw of a donor word
   shorter than 4 characters *)
ShortDonor ==
  /\ normalizedType = ANANSI
  /\ pc = "loop"
  /\ pc' = "loop"
  /\ drafts' = drafts + 1

(* C15: generate starts with attempts = 0; attempts grows by one exactly in
   the steps in which a drafted candidate fails the content filter and
   changes in no other step of generate; attempts never exceeds MAX_ATTEMPTS;
   a new draft is begun only while attempts < MAX_ATTEMPTS *)
C15_AttemptCounter ==
  [][/\ (pc = "batch" /\ pc' = "loop") => attempts' = 0
     /\ (pc \in {"loop", "resolve", "join"})
          => /\ FilterFailed => attempts' = attempts + 1
             /\ ~FilterFailed => attempts' = attempts
             /\ attempts' <= MAX_ATTEMPTS
     /\ (pc = "loop" /\ pc' \in {"resolve", "join"}) => attempts < MAX_ATTEMPTS]_vars

(* C15 as amended: attempts also grows by one when the anansi generate
   discards a draw of a donor word shorter than 4 characters *)
C15_AttemptCounterAmended ==
  [][/\ (pc = "batch" /\ pc' = "loop") => attempts' = 0
     /\ (pc \in {"loop", "resolve", "join"})
          => /\ (FilterFailed \/ ShortDonor) => attempts' = attempts + 1
             /\ ~(FilterFailed \/ ShortDonor) => attempts' = attempts
             /\ attempts' <= MAX_ATTEMPTS
     /\ (pc = "loop" /\ pc' \in {"resolve", "join"}) => attempts < MAX_ATTEMPTS]_vars

C15_Witness ==
  /\ pc = "loop"
  /\ normalizedType = ANANSI
  /\ attempts = MAX_ATTEMPTS
  /\ drafts = MAX_ATTEMPTS
  /\ name # <<>>

(* C16: on the table of scenario A (pattern [0,1,2], conflict slice 2 last)
   the conflict slice's candidate is compared with the candidate of slice 1
   only, a candidate equal to that of slice 0 is kept, and the synthesis
   comes to a name: the generator does not fail *)
C16_ScenarioA ==
  (normalizedType = SCENARIO_A)
    => /\ pc # "failed"
       /\ pc = "resolve" => ~redrawn

(* C16 as amended: the candidate of slice 2 always differs from that of
   slice 1, so nothing is drawn again, also when it equals the candidate of
   slice 0; the comparison with the missing right neighbour is then evaluated
   and throws a TypeError, and no name is produced *)
C16_ScenarioAThrows ==
  (normalizedType = SCENARIO_A)
    => /\ pc \in {"batch", "loop", "resolve", "failed"}
       /\ pc = "resolve" => ~redrawn
       /\ i = 0 /\ attempts = 0 /\ name = <<>>
       /\ pc = "failed" => (result.kind = "error" /\ result.text = "TypeError"
                              /\ names = NoNames)

C16_Witness ==
  /\ normalizedType = SCENARIO_A
  /\ pc = "failed"

(* C17: on the malformed table the conflict loop is never left: generate
   does not return, no draft is checked and attempts stays 0 *)
C17_MalformedNeverReturns ==
  (normalizedType = MALFORMED)
    => /\ pc \in {"batch", "loop", "resolve"}
       /\ attempts = 0
       /\ i = 0
       /\ name = <<>>
       /\ drafts <= 1

C17_Witness ==
  /\ normalizedType = MALFORMED
  /\ pc = "resolve"
  /\ redrawn

(* for every pattern of the table and every pair of candidates of the two
   neighbours of the conflict slice, the conflict slice has a candidate that
   differs from both *)
ConflictSliceDiverse(t) ==
  \A p \in DOMAIN PATTERNS(t) :
    LET pattern == PATTERNS(t)[p]
        conflictPos == IndexOf(pattern.indices, pattern.conflictIdx)
        prev == pattern.indices[conflictPos - 1]
        next == pattern.indices[conflictPos + 1]
    IN  \A a \in DOMAIN Characters(t)[prev], b \in DOMAIN Characters(t)[next] :
          \E c \in DOMAIN Characters(t)[pattern.conflictIdx] :
            /\ Characters(t)[pattern.conflictIdx][c] # Characters(t)[prev][a]
            /\ Characters(t)[pattern.conflictIdx][c] # Characters(t)[next][b]

(* C18: on the alien and amazon tables the conflict slice of every pattern
   has a candidate different from any pair of neighbour candidates; with a
   fair random source the conflict loop is left and every call of generate
   returns *)
C18_LoopExits ==
  /\ [](normalizedType \in {ALIEN, AMAZON} => ConflictSliceDiverse(normalizedType))
  /\ ((pc = "resolve" /\ normalizedType \in {ALIEN, AMAZON}) ~> (pc \in {"loop", "ret"}))
  /\ ((pc = "loop" /\ normalizedType \in {ALIEN, AMAZON}) ~> (pc = "ret"))

C18_Witness ==
  /\ pc = "ret"
  /\ normalizedType \in {ALIEN, AMAZON}
  /\ redrawn
  /\ attempts > 0

(* C19: while a pattern of the alien or amazon generator is in use its index
   is an index of the pattern list; every slice index of every pattern of
   the theme is an index of the theme's table and its slice is not empty;
   the conflict index occurs in the pattern at a position that is neither the
   first nor the last *)
C19_Configuration ==
  (normalizedType \in {ALIEN, AMAZON})
    => /\ patternIdx # -1 => patternIdx \in DOMAIN PATTERNS(normalizedType)
       /\ \A p \in DOMAIN PATTERNS(normalizedType) :
            LET pattern == PATTERNS(normalizedType)[p]
                conflictPos == IndexOf(pattern.indices, pattern.conflictIdx)
            IN  /\ \A k \in DOMAIN pattern.indices :
                     /\ pattern.indices[k] \in DOMAIN Characters(normalizedType)
                     /\ Length(Characters(normalizedType)[pattern.indices[k]]) >= 1
                /\ conflictPos > 0
                /\ conflictPos < Length(pattern.indices) - 1

C19_Witness ==
  /\ pc = "resolve"
  /\ normalizedType = AMAZON
  /\ patternIdx = AmazonPATTERN_COUNT - 1

(* s without its first k characters *)
Drop(s, k) == IF k >= Len(s) THEN <<>> ELSE SubSeq(s, k + 1, Len(s))

(* the character k of s exists and is an entry of the vowel slice *)
VowelAt(s, k) ==
  /\ k >= 1
  /\ k <= Len(s)
  /\ \E v \in DOMAIN AnansiCharacters[1] : AnansiCharacters[1][v] = <<s[k]>>

(* the reference policy for joining a prefix and a suffix, with the vowel to
   insert between two consonants *)
HiatusPolicy(prefix, suffix, vowel) ==
  IF VowelAt(prefix, Len(prefix)) /\ VowelAt(suffix, 1)
    THEN IF VowelAt(suffix, 2) THEN prefix \o Drop(suffix, 2) ELSE prefix \o Drop(suffix, 1)
    ELSE IF VowelAt(prefix, Len(prefix)) \/ VowelAt(suffix, 1)
      THEN prefix \o suffix
      ELSE prefix \o vowel \o suffix

(* C20: the name the anansi generate joins from a prefix and a suffix is the
   name the reference policy gives, with one entry of the vowel slice where
   the policy inserts a vowel *)
C20_HiatusPolicy ==
  /\ (pc = "called" /\ res.fn = "iteration" /\ ~res.short)
       => res.name = HiatusPolicy(Start(res.random), End(res.random),
                                  AnansiCharacters[1][arg.vowelIdx])
  /\ (normalizedType = ANANSI /\ pc \in {"loop", "ret"} /\ random # <<>>)
       => \E v \in DOMAIN AnansiCharacters[1] :
            name = HiatusPolicy(Start(random), End(random), AnansiCharacters[1][v])

C20_Witness ==
  /\ pc = "called"
  /\ res.fn = "iteration"
  /\ ~res.short
  /\ ~VowelAt(Start(res.random), Len(Start(res.random)))
  /\ ~VowelAt(End(res.random), 1)
  /\ Len(res.name) = Len(Start(res.random)) + Len(End(res.random)) + 2

(* C13: calls of generateNames in flight together do not interfere: a step of
   the running call or the start of a new call changes no suspended call's
   response; a call starts with its own empty names, attempt counter, indices
   and draft name whatever is suspended; and a resumed call settles with its
   own type and with the response its own generator built *)
C13_NonInterference ==
  [][/\ (Len(awaiting') >= Len(awaiting))
          => \A k \in 1..Len(awaiting) : awaiting'[k] = awaiting[k]
     /\ (Len(awaiting') > Len(awaiting))
          => awaiting' = Append(awaiting, [type |-> type, names |-> names])
     /\ (pc \in {"idle", "returned", "thrown"} /\ pc' = "batch")
          => /\ names' = InitialNames(normalizedType')
             /\ i' = 0
             /\ attempts' = 0
             /\ drafts' = 0
             /\ patternIdx' = -1
             /\ indices' = <<>>
             /\ name' = <<>>
     /\ (Len(awaiting') < Len(awaiting))
          => \E k \in 1..Len(awaiting) :
               /\ awaiting' = Remove(awaiting, k)
               /\ type' = awaiting[k].type
               /\ result' = Settled(awaiting[k])]_vars

C13_Witness ==
  /\ Len(awaiting) = 1
  /\ pc = "returned"
  /\ result.kind = "ok"
  /\ awaiting[1].type = ALIEN
  /\ type = ALIEN
  /\ awaiting[1].names.val # result.value

(* the bounds of one cut into a donor word *)
CutInBounds(cut, word) ==
  /\ cut >= 1
  /\ cut <= 5
  /\ Len(word) > 4 => cut >= 3

(* the bounds of both cuts of the array random, and the donors' lengths *)
CutsInBounds(rnd) ==
  /\ Len(AnansiCharacters[0][rnd[0]]) >= 4
  /\ Len(AnansiCharacters[0][rnd[2]]) >= 4
  /\ CutInBounds(rnd[1], AnansiCharacters[0][rnd[0]])
  /\ CutInBounds(rnd[3], AnansiCharacters[0][rnd[2]])

(* C21: the anansi generate drafts a name only from two donor words of at
   least 4 characters; the prefix cut is in 1..5 and at least 3 when the
   first donor word is longer than 4 characters, and the suffix cut obeys the
   same bounds for the second donor word *)
C21_FragmentCuts ==
  /\ (pc = "called" /\ res.fn = "iteration")
       => IF res.short
            THEN /\ TooShort(arg.firstNameIdx, arg.secondNameIdx)
                 /\ res.name = <<>>
            ELSE /\ res.random[0] = arg.firstNameIdx
                 /\ res.random[2] = arg.secondNameIdx
                 /\ CutsInBounds(res.random)
  /\ (normalizedType = ANANSI /\ random # <<>>) => CutsInBounds(random)
  /\ (normalizedType = ANANSI /\ random = <<>>) => name = <<>>

C21_Witness ==
  /\ pc = "called"
  /\ res.fn = "iteration"
  /\ ~res.short
  /\ arg.raw1 > 5
  /\ res.random[1] = 5
  /\ arg.raw3 < 3
  /\ res.random[3] = 3
  /\ Len(AnansiCharacters[0][arg.secondNameIdx]) > 4

(* C22: when both cuts would be 1 the suffix cut is 3, and no name is joined
   from a prefix fragment of one character and a suffix fragment of one
   character *)
C22_DegenerateGuard ==
  (pc = "called" /\ res.fn = "iteration" /\ ~res.short)
    => /\ (SplitPoint(arg.raw1, Len(AnansiCharacters[0][arg.firstNameIdx])) = 1
            /\ SplitPoint(arg.raw3, Len(AnansiCharacters[0][arg.secondNameIdx])) = 1)
           => res.random[3] = 3
       /\ ~(Len(Start(res.random)) = 1 /\ Len(End(res.random)) = 1)

(* C23: a step taken while the conflict is resolved leaves the pattern and
   the index drawn for every slice other than the conflict slice as they
   were, and a step taken when there is no conflict changes no index *)
C23_ResolveFrame ==
  [][(pc = "resolve" /\ normalizedType \in {ALIEN, AMAZON})
       => LET pattern == PATTERNS(normalizedType)[patternIdx]
          IN  /\ patternIdx' = patternIdx
              /\ DOMAIN indices' = DOMAIN indices
              /\ \A s \in DOMAIN indices :
                   s # pattern.conflictIdx => indices'[s] = indices[s]
              /\ ~Conflict(Characters(normalizedType), pattern, indices)
                   => indices' = indices]_vars

C23_Witness ==
  /\ pc = "resolve"
  /\ normalizedType \in {ALIEN, AMAZON}
  /\ redrawn
  /\ ~Conflict(Characters(normalizedType), PATTERNS(normalizedType)[patternIdx], indices)

(* C24: a call of generateNames for a registered theme that has failed inside
   the try has thrown the error with the generic message, not the error that
   was raised inside *)
C24_GenericError ==
  (pc = "thrown" /\ arg = NoArg /\ Registered(normalizedType))
    => /\ result.kind = "error"
       /\ result.text = "Failed to generate names. Please try again."

(* C25: a finished call of generateNames for a key of the registry has
   returned a result with gender keys and has not thrown *)
C25_RegisteredReturns ==
  (pc \in {"returned", "thrown"} /\ arg = NoArg /\ Registered(normalizedType))
    => /\ pc = "returned"
       /\ result.kind = "ok"
       /\ DOMAIN result.value \subseteq {"neutral", "male", "female"}

(* C26: every name of a returned batch is a non-empty string, and the anansi
   generate never returns the empty name it starts with *)
C26_NamesNonEmpty ==
  /\ (pc = "returned" /\ result.kind = "ok")
       => \A g \in DOMAIN result.value :
            \A k \in DOMAIN result.value[g] : result.value[g][k] # <<>>
  /\ (pc = "ret" /\ normalizedType = ANANSI) => name # <<>>

(* the fragment drawn for slice s of the amazon table *)
AmazonFragment(s) == AmazonCharacters[s][indices[s]]

(* C27: a name assembled from the amazon pattern [0, 1, 3, 1, 5] holds the
   one fragment drawn for slice 1 at both of its positions; in every pattern
   a slice listed twice is not the conflict slice, so no re-draw changes it;
   and indices holds one draw for each slice of the table *)
C27_RepeatedSlice ==
  /\ (normalizedType = AMAZON /\ pc \in {"loop", "ret"} /\ patternIdx = 1)
       => name = AmazonFragment(0) \o AmazonFragment(1) \o AmazonFragment(3)
                   \o AmazonFragment(1) \o AmazonFragment(5)
  /\ (normalizedType \in {ALIEN, AMAZON})
       => \A p \in DOMAIN PATTERNS(normalizedType) :
            LET pattern == PATTERNS(normalizedType)[p]
            IN  \A j \in DOMAIN pattern.indices, k \in DOMAIN pattern.indices :
                  (j # k /\ pattern.indices[j] = pattern.indices[k])
                    => pattern.indices[j] # pattern.conflictIdx
  /\ (normalizedType \in {ALIEN, AMAZON} /\ patternIdx # -1)
       => DOMAIN indices = DOMAIN Characters(normalizedType)

C27_Witness ==
  /\ normalizedType = AMAZON
  /\ pc = "ret"
  /\ patternIdx = 1
  /\ indices[1] = 1
  /\ name = <<"e", "c", "e", "c", "e">>

(* C28: in an assembled alien or amazon name whose conflict slice gave the
   empty string, the candidates of the conflict slice's two neighbours in the
   pattern differ *)
C28_NoDoubledFragment ==
  (normalizedType \in {ALIEN, AMAZON} /\ pc \in {"loop", "ret"} /\ patternIdx # -1)
    => LET characters == Characters(normalizedType)
           pattern == PATTERNS(normalizedType)[patternIdx]
           conflictPos == IndexOf(pattern.indices, pattern.conflictIdx)
           prev == pattern.indices[conflictPos - 1]
           next == pattern.indices[conflictPos + 1]
       IN  characters[pattern.conflictIdx][indices[pattern.conflictIdx]] = <<>>
             => characters[prev][indices[prev]] # characters[next][indices[next]]

(* every list of the names n has COUNT entries *)
FullBatch(n) == \A g \in DOMAIN n : Length(n[g]) = COUNT

(* C29: once no call of GetNames is running or suspended, the names displayed
   are a batch of the generator of the displayed value: nothing under the
   empty value, a neutral list under "alien", and the three lists under
   "angel" *)
C29_DisplayedForValue ==
  (pc = "idle" /\ awaiting = <<>>)
    => \/ value = <<>> /\ items = NoItems
       \/ value = ALIEN /\ DOMAIN items = {"neutral"} /\ FullBatch(items)
       \/ value = ANGEL /\ DOMAIN items = {"neutral", "male", "female"} /\ FullBatch(items)

=============================================================================
